---- MODULE Spec2Model ----
(***************************************************************************)
(* Download orchestration of the background service worker                 *)
(* (src/unnamed/part_003): job requests, the shared queue and counters,    *)
(* the queue driver startProcessingQueue, the per-item operation           *)
(* downloadPhoto, cancellation, the dedup ledger and the events sent to    *)
(* the popup.  One action is one run-to-completion step of the JavaScript  *)
(* event loop: a message handler, a storage callback, a timer callback or  *)
(* a promise continuation together with the microtasks it triggers.        *)
(***************************************************************************)
EXTENDS Integers, Sequences, FiniteSets, TLC

\* ---------------------------------------------------------------- bounds
MaxJobs == 2
MaxPhotos == 2
MaxConc == 2
MaxCancels == 1
MaxOptionChanges == 1
MaxInputLen == 2
MaxNameLen == 2
MaxAtoms == 3
MaxJoined == 5
PacedPhotos == 4
MaxDetects == 2

Photos == 1..MaxPhotos
JobIds == 1..MaxJobs

\* ------------------------------------------------------------ vocabulary
Kinds == {"album", "post", "single"}
TerminalTypes == {"Completed", "Cancelled", "Error"}

Min(a, b) == IF a < b THEN a ELSE b
Max(a, b) == IF a > b THEN a ELSE b

\* photo lists a request can carry: the ids 1..n in page order
PhotoList(n) == [i \in 1..n |-> i]

\* values of the persisted options record that matter to the queue
OptionValues == [concurrentDownloads : 1..MaxConc, skipDownloaded : BOOLEAN]

VARIABLES
    strictMode,                   \* build: is the worker script strict code
    options,                      \* chrome.storage.local 'options'
    storedIds,                    \* chrome.storage.local 'downloadedFileIds'
    downloadedFileIds,
    downloadQueue,
    activeDownloads,
    currentCollectionName,
    currentTabId,
    isCancelled,
    totalPhotosForCurrentJob,
    processedPhotosForCurrentJob,
    jobs,                         \* the async job functions and where they are
    inflight,                     \* downloadPhoto promises not yet settled
    timers,                       \* pending setTimeout(startProcessingQueue)
    storageGets,                  \* pending chrome.storage.local.get calls of getOptions, oldest first:
                                  \* a job id (await getOptions) or 0 (optionsPromise of the queue driver)
    emitted,                      \* events sent to the popup by the last step
    effects,                      \* side effects performed by the last step
    terminals,                    \* history: terminal events per job
    cancelRequested,              \* history: a cancel arrived after the job started
    dropped,                      \* history: items cleared from the queue by cancel
    cancels,                      \* number of cancel requests received
    optionChanges,                \* number of option changes made
    drain,                        \* history: in-flight count at a cancel and settlements before its event
    outcomes,                     \* history: items dispatched, saved and failed per job, and the ids saved
    progressLog,                  \* history: the progress events sent per job, in order
    startup,                      \* the startup read of the persisted ledger
    optionsPage,                  \* options page: the record it persisted last and how
    naming,                       \* the naming functions: their input and results
    popup,                        \* the popup's page: its elements, globals and pending calls
    toPopup,                      \* messages sent to the open popup and not yet handled
    resolver                      \* a call of getPhotoUrlsForAlbum: where it is and its signal

vars == <<strictMode, options, storedIds, downloadedFileIds,
          downloadQueue, activeDownloads, currentCollectionName, currentTabId,
          isCancelled, totalPhotosForCurrentJob, processedPhotosForCurrentJob,
          jobs, inflight, timers, storageGets, emitted, effects, terminals,
          cancelRequested, dropped, cancels, optionChanges, drain, outcomes,
          progressLog, startup, optionsPage, naming, popup, toPopup, resolver>>

\* the variables the download steps leave alone
aside == <<startup, optionsPage, naming, resolver>>
popupVars == <<popup, toPopup>>

\* chrome.runtime.sendMessage of notifyPopup: the events of the step reach
\* the popup's listener when the popup is open, and are lost otherwise
Delivery ==
    /\ UNCHANGED aside
    /\ toPopup' = IF popup.open THEN toPopup \o emitted' ELSE toPopup

\* a step of the worker that is not the receipt of a message of the popup
WorkerOnly ==
    /\ Delivery
    /\ UNCHANGED popup

\* ---------------------------------------------------------------- events
Progress(j, p, t) == [type |-> "Progress", job |-> j, processed |-> p, total |-> t]
Terminal(ty, j) == [type |-> ty, job |-> j, processed |-> 0, total |-> 0]
ItemError(j) == [type |-> "ItemError", job |-> j, processed |-> 0, total |-> 0]

\* notifyPopup: the message is sent only when a tab id has been recorded
notifyPopup(tab, ev) == IF tab # "null" THEN <<ev>> ELSE <<>>

\* number of events of type ty that evs carries for job j
RECURSIVE CountEv(_, _, _)
CountEv(evs, ty, j) ==
    IF evs = <<>> THEN 0
    ELSE (IF Head(evs).type = ty /\ Head(evs).job = j THEN 1 ELSE 0)
         + CountEv(Tail(evs), ty, j)

\* history of terminal events, each count saturating at 2
Tally(evs) ==
    [j \in JobIds |->
        [ty \in TerminalTypes |-> Min(2, terminals[j][ty] + CountEv(evs, ty, j))]]

\* history of progress events: those of evs appended per job
Logged(evs) ==
    [j \in JobIds |->
        progressLog[j] \o SelectSeq(evs, LAMBDA e : e.type = "Progress" /\ e.job = j)]

ItemKey(it) == <<it.job, it.index>>
SeqRange(s) == {s[i] : i \in 1..Len(s)}

\* ------------------------------------------------------- initial state
NotRead == [concurrentDownloads |-> 0, skipDownloaded |-> FALSE]
NewJob == [photos |-> <<>>, pc |-> "new", opts |-> NotRead,
           resolved |-> "none", queued |-> 0, ledgerAt |-> {}, idleAtStart |-> FALSE]

\* ---------------------------------------------------- the options page
\* (src/options/options.js) a string is the sequence of its characters
DigitValue == [c \in {"0", "1", "2", "3", "4", "5", "6", "7", "8", "9"} |->
                 CASE c = "0" -> 0 [] c = "1" -> 1 [] c = "2" -> 2 [] c = "3" -> 3
                   [] c = "4" -> 4 [] c = "5" -> 5 [] c = "6" -> 6 [] c = "7" -> 7
                   [] c = "8" -> 8 [] c = "9" -> 9]
IsDigit(c) == c \in DOMAIN DigitValue
WhiteSpace == {" "}

\* the string without its leading white space
RECURSIVE TrimStart(_)
TrimStart(str) ==
    IF str # <<>> /\ Head(str) \in WhiteSpace THEN TrimStart(Tail(str)) ELSE str

\* the longest prefix of str made of digits
RECURSIVE DigitPrefix(_)
DigitPrefix(str) ==
    IF str # <<>> /\ IsDigit(Head(str))
    THEN <<Head(str)>> \o DigitPrefix(Tail(str))
    ELSE <<>>

\* the number a sequence of digits writes in base 10
RECURSIVE DecimalValue(_)
DecimalValue(digits) ==
    IF digits = <<>> THEN 0
    ELSE 10 * DecimalValue(SubSeq(digits, 1, Len(digits) - 1))
         + DigitValue[digits[Len(digits)]]

\* parseInt(str, 10): white space is skipped, a sign is read, then digits up
\* to the first other character; NaN when there is no digit
parseInt(str) ==
    LET t == TrimStart(str)
        signed == t # <<>> /\ Head(t) \in {"+", "-"}
        digits == DigitPrefix(IF signed THEN Tail(t) ELSE t)
    IN  IF digits = <<>> THEN [nan |-> TRUE, val |-> 0]
        ELSE [nan |-> FALSE,
              val |-> IF signed /\ Head(t) = "-"
                      THEN 0 - DecimalValue(digits) ELSE DecimalValue(digits)]

\* parseInt(...) || def: NaN and 0 are falsy
OrDefault(r, def) == IF r.nan \/ r.val = 0 THEN def ELSE r.val

\* Math.max(lo, Math.min(hi, v)), and a mutation that stores v as parsed
Unclamped(lo, hi, v) == v

Clamp(lo, hi, v) == Max(lo, Min(hi, v))

defaultOptions == [fileNameIndexPadding |-> 3, concurrentDownloads |-> 3,
                   delayBetweenDownloads |-> 500]

\* no record has been persisted by the page
NothingSaved == [by |-> "none", saved |-> defaultOptions,
                 clamped |-> [fileNameIndexPadding |-> FALSE,
                              concurrentDownloads |-> FALSE,
                              delayBetweenDownloads |-> FALSE],
                 entered |-> [fileNameIndexPadding |-> [nan |-> TRUE, val |-> 0],
                              concurrentDownloads |-> [nan |-> TRUE, val |-> 0],
                              delayBetweenDownloads |-> [nan |-> TRUE, val |-> 0]]]

\* no name has been asked for
NoName == [pc |-> "none", rule |-> <<>>, album |-> <<>>, input |-> <<>>,
           rendered |-> [name |-> <<>>, fallback |-> FALSE],
           sanitized |-> [name |-> <<>>, fallback |-> FALSE],
           again |-> [name |-> <<>>, fallback |-> FALSE]]

\* no call of getPhotoUrlsForAlbum is being followed
NotCalled == [pc |-> "idle", signal |-> "none", aborted |-> FALSE, realId |-> FALSE,
              photos |-> 0, exit |-> "none", fellBack |-> FALSE,
              scrapedAborted |-> FALSE, result |-> "none"]

\* the popup is not open
PopupClosed == [open |-> FALSE, context |-> [kind |-> "none", n |-> 0],
                pageContextCache |-> FALSE, currentTabId |-> FALSE,
                progressContainer |-> "none", cancelBtn |-> "none",
                cancelDisabled |-> FALSE, downloadBtn |-> "none",
                downloadDisabled |-> FALSE, openOptionsDisabled |-> FALSE,
                detecting |-> 0, requests |-> <<>>]

\* the worker's globals and the histories before any request
Fresh ==
    /\ downloadedFileIds = {}
    /\ options = [concurrentDownloads |-> MaxConc, skipDownloaded |-> TRUE]
    /\ downloadQueue = <<>>
    /\ activeDownloads = 0
    /\ currentCollectionName = 0
    /\ currentTabId = "null"
    /\ isCancelled = FALSE
    /\ totalPhotosForCurrentJob = 0
    /\ processedPhotosForCurrentJob = 0
    /\ jobs = [j \in JobIds |-> NewJob]
    /\ inflight = {}
    /\ timers = 0
    /\ emitted = <<>>
    /\ effects = {}
    /\ terminals = [j \in JobIds |-> [ty \in TerminalTypes |-> 0]]
    /\ cancelRequested = [j \in JobIds |-> FALSE]
    /\ dropped = {}
    /\ cancels = 0
    /\ optionChanges = 0
    /\ drain = [j \in JobIds |-> [k |-> -1, further |-> 0]]
    /\ outcomes = [j \in JobIds |-> [dispatched |-> 0, saved |-> 0, failed |-> 0, ids |-> {}]]
    /\ progressLog = [j \in JobIds |-> <<>>]

\* a worker whose startup read found an empty ledger
Init ==
    /\ strictMode \in BOOLEAN
    /\ storedIds = {}
    /\ storageGets = <<>>
    /\ startup = [pending |-> FALSE, ids |-> {}]
    /\ optionsPage = NothingSaved
    /\ naming = NoName
    /\ Fresh
    /\ popup = PopupClosed
    /\ toPopup = <<>>
    /\ resolver = NotCalled

Started == {j \in JobIds : jobs[j].pc # "new"}

\* ------------------------------------------------------- storage steps
\* the options page persists a new options record
ChangeOptions ==
    /\ optionChanges < MaxOptionChanges
    /\ optionChanges' = optionChanges + 1
    /\ \E o \in OptionValues : o # options /\ options' = o
    /\ emitted' = <<>>
    /\ effects' = {}
    /\ WorkerOnly
    /\ UNCHANGED <<progressLog, outcomes, strictMode, cancels, storedIds, downloadedFileIds,
                   downloadQueue, activeDownloads, currentCollectionName,
                   currentTabId, isCancelled, totalPhotosForCurrentJob,
                   processedPhotosForCurrentJob, jobs, inflight, timers, storageGets,
                   terminals, cancelRequested, dropped, drain>>

\* --------------------------------------------------------- job requests
\* the set of outcomes of getPhotoUrlsForAlbum.  Called without a signal,
\* every path ends in the scrape fallback, whose unguarded signal.aborted
\* raises a TypeError that the catch turns into a thrown Error; with a
\* signal it returns a photo list, throws an Error or throws AbortError.
getPhotoUrlsForAlbum(signalGiven) ==
    IF signalGiven
    THEN {[result |-> "photos", n |-> n] : n \in 0..MaxPhotos}
         \cup {[result |-> "throw", n |-> 0], [result |-> "abort", n |-> 0]}
    ELSE {[result |-> "throw", n |-> 0]}

\* the synchronous part of startProcessingQueue, run on queue q, active
\* count act and job total tot: the next queue and active count, the
\* read of the options it started, the events sent, and whether it threw.
\* isDownloading is never declared: in strict code each assignment to it
\* raises a ReferenceError, in sloppy code it creates a global.
startProcessingQueue(q, act, tot) ==
    IF isCancelled
    THEN IF strictMode
         THEN [threw |-> TRUE, q |-> q, act |-> act, rd |-> <<>>, ev |-> <<>>]
         ELSE [threw |-> FALSE, q |-> <<>>, act |-> 0, rd |-> <<>>, ev |-> <<>>]
    ELSE IF Len(q) = 0 /\ act = 0
    THEN IF strictMode
         THEN [threw |-> TRUE, q |-> q, act |-> act, rd |-> <<>>, ev |-> <<>>]
         ELSE [threw |-> FALSE, q |-> q, act |-> act, rd |-> <<>>,
               ev |-> IF tot > 0
                      THEN notifyPopup(currentTabId, Terminal("Completed", currentCollectionName))
                      ELSE <<>>]
    ELSE IF strictMode
         THEN [threw |-> TRUE, q |-> q, act |-> act, rd |-> <<>>, ev |-> <<>>]
         ELSE [threw |-> FALSE, q |-> q, act |-> act, rd |-> <<0>>, ev |-> <<>>]

\* the photos the dedup filter lets through, and a mutation that skips
\* the filter
photosUnfiltered(photos, opts) == photos

photosToQueue(photos, opts) ==
    IF opts.skipDownloaded
    THEN SelectSeq(photos, LAMBDA p : p \notin downloadedFileIds)
    ELSE photos

\* the queue items built from the surviving photos, and a mutation that
\* numbers them from zero
QueueItemsFromZero(j, photos) ==
    [i \in 1..Len(photos) |-> [job |-> j, index |-> i - 1, id |-> photos[i]]]

QueueItems(j, photos) ==
    [i \in 1..Len(photos) |-> [job |-> j, index |-> i, id |-> photos[i]]]

\* a download request from the popup: album, post photos or single photo,
\* with n photos in the request
StartJobWith(kind, n) ==
      LET j == Cardinality(Started) + 1 IN
        /\ j \in JobIds
        /\ kind = "single" => n = 1
        /\ kind = "album" => n = 0
        /\ currentTabId' = "tab"
        /\ isCancelled' = FALSE
        /\ currentCollectionName' = j
        /\ storageGets' = storageGets \o <<j>>
        /\ jobs' = [jobs EXCEPT ![j] =
                       [photos |-> PhotoList(n),
                        pc |-> IF kind = "album" THEN "albumOptions" ELSE "photosOptions",
                        opts |-> NotRead, resolved |-> "none", queued |-> 0,
                        ledgerAt |-> {},
                        idleAtStart |-> /\ inflight = {}
                                        /\ timers = 0 /\ storageGets = <<>>
                                        /\ \A i \in JobIds : jobs[i].pc \in {"new", "done"}]]
        /\ emitted' = <<>>
        /\ effects' = {}
        /\ Delivery
        /\ UNCHANGED <<progressLog, outcomes, strictMode, cancels, optionChanges, options, storedIds, downloadedFileIds, downloadQueue, activeDownloads,
                       totalPhotosForCurrentJob, processedPhotosForCurrentJob,
                       inflight, timers, terminals, cancelRequested,
                       dropped, drain>>

StartJob ==
    /\ \E kind \in Kinds, n \in 0..MaxPhotos : StartJobWith(kind, n)
    /\ UNCHANGED popup

\* the event sent when the filter leaves nothing to download, and a
\* mutation that reports it as a failure
AllSkippedAsError(j) == notifyPopup(currentTabId, Terminal("Error", j))

AllSkipped(j) == notifyPopup(currentTabId, Terminal("Completed", j))

\* processPhotosDownload from its options on: counters, filter, queue build
\* and the call of startProcessingQueue.  A throw of startProcessingQueue
\* rejects the job's promise: quiet says the caller drops it silently; gets
\* are the storage reads still pending when it resumes.
processPhotosDownload(j, photos, opts, quiet, gets) ==
    LET surviving == photosToQueue(photos, opts)
        first == notifyPopup(currentTabId, Progress(j, 0, Len(photos)))
        second == notifyPopup(currentTabId, Progress(j, 0, Len(surviving)))
        r == startProcessingQueue(QueueItems(j, surviving), activeDownloads, Len(surviving))
        evs == IF Len(surviving) = 0
               THEN first \o AllSkipped(j)
               ELSE first \o second \o r.ev
                    \o (IF r.threw /\ ~quiet
                        THEN notifyPopup(currentTabId, Terminal("Error", j))
                        ELSE <<>>)
    IN  /\ processedPhotosForCurrentJob' = 0
        /\ totalPhotosForCurrentJob' = IF Len(surviving) = 0 THEN Len(photos) ELSE Len(surviving)
        /\ downloadQueue' = IF Len(surviving) = 0 THEN downloadQueue ELSE r.q
        /\ activeDownloads' = IF Len(surviving) = 0 THEN activeDownloads ELSE r.act
        /\ storageGets' = gets \o (IF Len(surviving) = 0 THEN <<>> ELSE r.rd)
        /\ jobs' = [jobs EXCEPT ![j].pc = "done",
                                ![j].opts = opts,
                                ![j].resolved = IF Len(photos) = 0 THEN "empty" ELSE "photos",
                                ![j].queued = Len(surviving),
                                ![j].ledgerAt = downloadedFileIds]
        /\ emitted' = evs
        /\ terminals' = Tally(evs)
        /\ progressLog' = Logged(evs)

\* processPhotosDownload resumes after await getOptions()
PhotosOptionsRead(j) ==
    /\ jobs[j].pc = "photosOptions"
    /\ storageGets # <<>>
    /\ Head(storageGets) = j
    /\ processPhotosDownload(j, jobs[j].photos, options, FALSE, Tail(storageGets))
    /\ effects' = {}
    /\ WorkerOnly
    /\ UNCHANGED <<outcomes, strictMode, cancels, optionChanges, options, storedIds, downloadedFileIds,
                   currentCollectionName, currentTabId, isCancelled, inflight,
                   timers, cancelRequested, dropped, drain>>

\* processAlbumDownload resumes after await getOptions()
AlbumOptionsRead(j) ==
    /\ jobs[j].pc = "albumOptions"
    /\ storageGets # <<>>
    /\ Head(storageGets) = j
    /\ storageGets' = Tail(storageGets)
    /\ totalPhotosForCurrentJob' = 0
    /\ processedPhotosForCurrentJob' = 0
    /\ jobs' = [jobs EXCEPT ![j].pc = "resolving", ![j].opts = options]
    /\ emitted' = <<>>
    /\ effects' = {}
    /\ WorkerOnly
    /\ UNCHANGED <<progressLog, outcomes, strictMode, cancels, optionChanges, options, storedIds, downloadedFileIds,
                   downloadQueue, activeDownloads, currentCollectionName,
                   currentTabId, isCancelled, inflight, timers, terminals,
                   cancelRequested, dropped, drain>>

\* processAlbumDownload resumes after await getPhotoUrlsForAlbum(...)
AlbumResolved(j) ==
    /\ jobs[j].pc = "resolving"
    /\ \E out \in getPhotoUrlsForAlbum(FALSE) :
         IF out.result = "photos" /\ ~isCancelled /\ out.n > 0
         THEN processPhotosDownload(j, PhotoList(out.n), jobs[j].opts, isCancelled, storageGets)
         ELSE LET evs == IF isCancelled THEN <<>>
                         ELSE notifyPopup(currentTabId, Terminal("Error", j))
              IN  /\ jobs' = [jobs EXCEPT ![j].pc = "done",
                                          ![j].resolved = IF out.result = "photos"
                                                          THEN "empty" ELSE "error"]
                  /\ emitted' = evs
                  /\ terminals' = Tally(evs)
                  /\ UNCHANGED <<downloadQueue, activeDownloads, storageGets,
                                 totalPhotosForCurrentJob, processedPhotosForCurrentJob,
                                 progressLog>>
    /\ effects' = {}
    /\ WorkerOnly
    /\ UNCHANGED <<outcomes, strictMode, cancels, optionChanges, options, storedIds, downloadedFileIds,
                   currentCollectionName, currentTabId, isCancelled, inflight,
                   timers, cancelRequested, dropped, drain>>

\* ------------------------------------------------------ the queue driver
\* a pacing timer fires and calls startProcessingQueue; a throw in the
\* timer callback is an uncaught exception and changes nothing
TimerFires ==
    /\ timers > 0
    /\ LET r == startProcessingQueue(downloadQueue, activeDownloads, totalPhotosForCurrentJob)
       IN  /\ timers' = timers - 1
           /\ downloadQueue' = r.q
           /\ activeDownloads' = r.act
           /\ storageGets' = storageGets \o r.rd
           /\ emitted' = r.ev
           /\ terminals' = Tally(r.ev)
    /\ effects' = {}
    /\ WorkerOnly
    /\ UNCHANGED <<progressLog, outcomes, strictMode, cancels, optionChanges, options, storedIds, downloadedFileIds,
                   currentCollectionName, currentTabId, isCancelled,
                   totalPhotosForCurrentJob, processedPhotosForCurrentJob, jobs,
                   inflight, cancelRequested, dropped, drain>>

\* number of items one run of the dispatch loop shifts off the queue
BatchSize(q, act, limit) ==
    IF isCancelled THEN 0 ELSE Min(Len(q), Max(0, limit - act))

\* entry of downloadPhoto: a cancelled job resolves at once, otherwise the
\* operation suspends in fetch
downloadPhoto(item) ==
    [job |-> item.job, index |-> item.index, id |-> item.id,
     stage |-> IF isCancelled THEN "skip" ELSE "fetch"]

\* k times downloadQueue.shift(): the items taken, in the order taken,
\* and the queue left; a mutation that takes them from the tail
Popped(q, k) ==
    [batch |-> [i \in 1..k |-> q[Len(q) + 1 - i]],
     rest |-> SubSeq(q, 1, Len(q) - k)]

Shifted(q, k) ==
    [batch |-> SubSeq(q, 1, k),
     rest |-> SubSeq(q, k + 1, Len(q))]

\* the optionsPromise.then callback of startProcessingQueue: the dispatch
\* loop and the completion check that follows it
BatchDispatch ==
    /\ storageGets # <<>>
    /\ Head(storageGets) = 0
    /\ LET k == BatchSize(downloadQueue, activeDownloads, options.concurrentDownloads)
           batch == Shifted(downloadQueue, k).batch
           rest == Shifted(downloadQueue, k).rest
           evs == IF /\ Len(rest) = 0
                     /\ activeDownloads + k = 0
                     /\ ~isCancelled
                     /\ ~strictMode
                     /\ totalPhotosForCurrentJob > 0
                     /\ processedPhotosForCurrentJob >= totalPhotosForCurrentJob
                  THEN notifyPopup(currentTabId, Terminal("Completed", currentCollectionName))
                  ELSE <<>>
       IN  /\ storageGets' = Tail(storageGets)
           /\ downloadQueue' = rest
           /\ activeDownloads' = activeDownloads + k
           /\ inflight' = inflight \cup {downloadPhoto(batch[i]) : i \in 1..k}
           /\ outcomes' = [j \in JobIds |->
                  [outcomes[j] EXCEPT !.dispatched =
                      @ + Cardinality({i \in 1..k : batch[i].job = j})]]
           /\ emitted' = evs
           /\ terminals' = Tally(evs)
    /\ effects' = {}
    /\ WorkerOnly
    /\ UNCHANGED <<progressLog, strictMode, cancels, optionChanges, options, storedIds, downloadedFileIds,
                   currentCollectionName, currentTabId, isCancelled,
                   totalPhotosForCurrentJob, processedPhotosForCurrentJob, jobs,
                   timers, cancelRequested, dropped, drain>>

\* ------------------------------------------------ the per-item operation
\* the finally handler of a dispatched item d, after the events evs its
\* operation sent: counters, progress event, pacing timer
Settle(d, evs) ==
    LET progress == notifyPopup(currentTabId,
                        Progress(d.job, processedPhotosForCurrentJob + 1,
                                 totalPhotosForCurrentJob))
    IN  /\ inflight' = inflight \ {d}
        /\ activeDownloads' = activeDownloads - 1
        /\ processedPhotosForCurrentJob' = processedPhotosForCurrentJob + 1
        /\ timers' = IF isCancelled THEN timers ELSE timers + 1
        /\ emitted' = evs \o progress
        /\ terminals' = Tally(evs \o progress)
        /\ progressLog' = Logged(evs \o progress)
        /\ drain' = [j \in JobIds |->
                        IF drain[j].k >= 0 /\ terminals[j]["Cancelled"] = 0
                        THEN [drain[j] EXCEPT !.further = Min(MaxPhotos, @ + 1)]
                        ELSE drain[j]]

\* fetch answers with a success status: the blob is handed to
\* chrome.downloads.download, which writes the file
FetchOk(d) ==
    /\ d \in inflight
    /\ d.stage = "fetch"
    /\ inflight' = (inflight \ {d}) \cup {[d EXCEPT !.stage = "save"]}
    /\ effects' = {[what |-> "write", job |-> d.job, id |-> d.id]}
    /\ emitted' = <<>>
    /\ WorkerOnly
    /\ UNCHANGED <<progressLog, outcomes, strictMode, cancels, optionChanges, options, storedIds, downloadedFileIds,
                   downloadQueue, activeDownloads, currentCollectionName,
                   currentTabId, isCancelled, totalPhotosForCurrentJob,
                   processedPhotosForCurrentJob, jobs, timers, storageGets, terminals,
                   cancelRequested, dropped, drain>>

\* the ledger after an item that failed or was skipped: neither the catch
\* block nor the failure branches of the download callback touch it; a
\* mutation that records the id all the same
LedgerAddedAnyway(ledger, id) == ledger \cup {id}

LedgerAfterFailure(ledger, id) == ledger

\* fetch throws or answers with a non-success status (the catch block), or
\* the operation was skipped at entry
FetchFail(d) ==
    /\ d \in inflight
    /\ d.stage \in {"fetch", "skip"}
    /\ Settle(d, IF isCancelled \/ d.stage = "skip" THEN <<>>
                 ELSE notifyPopup(currentTabId, ItemError(d.job)))
    /\ outcomes' = [outcomes EXCEPT ![d.job].failed =
                        IF d.stage = "skip" THEN @ ELSE @ + 1]
    /\ downloadedFileIds' = LedgerAfterFailure(downloadedFileIds, d.id)
    /\ effects' = {}
    /\ WorkerOnly
    /\ UNCHANGED <<strictMode, cancels, optionChanges, options, storedIds,
                   downloadQueue, currentCollectionName, currentTabId, isCancelled,
                   totalPhotosForCurrentJob, jobs, storageGets, cancelRequested,
                   dropped>>

\* the ledger after a successful save of photo id: the id is added to the
\* set and the whole set is persisted; a mutation that replaces the set
LedgerReplaced(ledger, id) == {id}

LedgerAfterSuccess(ledger, id) == ledger \cup {id}

\* saveDownloadedFileIds: the array of the whole set replaces the stored
\* value; a mutation that leaves the write to a later moment
saveDeferred(ledger, stored) == stored

saveDownloadedFileIds(ledger, stored) == ledger

\* the callback of chrome.downloads.download, with a download id
SaveOk(d) ==
    /\ d \in inflight
    /\ d.stage = "save"
    /\ downloadedFileIds' = LedgerAfterSuccess(downloadedFileIds, d.id)
    /\ storedIds' = saveDownloadedFileIds(LedgerAfterSuccess(downloadedFileIds, d.id),
                                          storedIds)
    /\ Settle(d, <<>>)
    /\ outcomes' = [outcomes EXCEPT ![d.job].saved = @ + 1,
                                    ![d.job].ids = @ \cup {d.id}]
    /\ effects' = {[what |-> "ledger", job |-> d.job, id |-> d.id]}
    /\ WorkerOnly
    /\ UNCHANGED <<strictMode, cancels, optionChanges, options, downloadQueue,
                   currentCollectionName, currentTabId, isCancelled,
                   totalPhotosForCurrentJob, jobs, storageGets, cancelRequested,
                   dropped>>

\* the callback of chrome.downloads.download, with lastError set or with no
\* download id
SaveFail(d) ==
    /\ d \in inflight
    /\ d.stage = "save"
    /\ Settle(d, notifyPopup(currentTabId, ItemError(d.job)))
    /\ outcomes' = [outcomes EXCEPT ![d.job].failed = @ + 1]
    /\ downloadedFileIds' = LedgerAfterFailure(downloadedFileIds, d.id)
    /\ effects' = {}
    /\ WorkerOnly
    /\ UNCHANGED <<strictMode, cancels, optionChanges, options, storedIds,
                   downloadQueue, currentCollectionName, currentTabId, isCancelled,
                   totalPhotosForCurrentJob, jobs, storageGets, cancelRequested,
                   dropped>>

\* ---------------------------------------------------------- cancellation
\* the pending queue a cancel request leaves behind, a mutation that forgets
\* to clear it, and the assignment made by the handler
PendingKept(q) == q

PendingAfterCancel(q) == <<>>

\* the cancelDownload message handler
cancelDownload ==
    LET evs == notifyPopup(currentTabId, Terminal("Cancelled", currentCollectionName))
    IN  /\ cancels < MaxCancels
        /\ cancels' = cancels + 1
        /\ isCancelled' = TRUE
        /\ downloadQueue' = PendingAfterCancel(downloadQueue)
        /\ emitted' = evs
        /\ terminals' = Tally(evs)
        /\ cancelRequested' = [j \in JobIds |-> cancelRequested[j] \/ j \in Started]
        /\ dropped' = dropped \cup {ItemKey(it) : it \in SeqRange(downloadQueue)}
        /\ drain' = [j \in JobIds |->
                        IF j = currentCollectionName /\ Len(downloadQueue) > 0
                        THEN [k |-> Cardinality(inflight), further |-> 0]
                        ELSE drain[j]]
        /\ effects' = {}
        /\ Delivery
        /\ UNCHANGED <<progressLog, outcomes, strictMode, optionChanges, options, storedIds, downloadedFileIds, activeDownloads, currentCollectionName,
                       currentTabId, totalPhotosForCurrentJob,
                       processedPhotosForCurrentJob, jobs, inflight, timers,
                       storageGets>>

\* a cancel request that does not come from the popup modelled here
Cancel ==
    /\ cancelDownload
    /\ UNCHANGED popup

\* ------------------------------------------------------ the specification
Next ==
    \/ ChangeOptions
    \/ StartJob
    \/ \E j \in JobIds : PhotosOptionsRead(j)
    \/ \E j \in JobIds : AlbumOptionsRead(j)
    \/ \E j \in JobIds : AlbumResolved(j)
    \/ TimerFires
    \/ BatchDispatch
    \/ \E d \in inflight : FetchOk(d)
    \/ \E d \in inflight : FetchFail(d)
    \/ \E d \in inflight : SaveOk(d)
    \/ \E d \in inflight : SaveFail(d)
    \/ Cancel

Spec == Init /\ [][Next]_vars

\* ------------------------------------------------------ one longer job
\* a single post job of PacedPhotos photos, downloaded with the options
\* left as they are and without a cancel request
StartPacedJob ==
    /\ Started = {}
    /\ StartJobWith("post", PacedPhotos)
    /\ UNCHANGED popup

NextPaced ==
    \/ StartPacedJob
    \/ \E j \in JobIds : PhotosOptionsRead(j)
    \/ TimerFires
    \/ BatchDispatch
    \/ \E d \in inflight : FetchOk(d)
    \/ \E d \in inflight : FetchFail(d)
    \/ \E d \in inflight : SaveOk(d)
    \/ \E d \in inflight : SaveFail(d)

SpecPaced == Init /\ [][NextPaced]_vars

\* ------------------------------------------------- the worker's startup
\* the worker script has just run: its read of the persisted ledger is the
\* oldest pending storage read, and the store holds what earlier runs saved
InitStartup ==
    /\ strictMode \in BOOLEAN
    /\ storedIds \in SUBSET Photos
    /\ storageGets = <<-1>>
    /\ startup = [pending |-> TRUE, ids |-> {}]
    /\ optionsPage = NothingSaved
    /\ naming = NoName
    /\ Fresh
    /\ popup = PopupClosed
    /\ toPopup = <<>>
    /\ resolver = NotCalled

\* the callback of the startup read: the array read replaces the set
LoadLedger ==
    /\ startup.pending
    /\ storageGets # <<>>
    /\ Head(storageGets) = -1
    /\ storageGets' = Tail(storageGets)
    /\ downloadedFileIds' = storedIds
    /\ startup' = [pending |-> FALSE, ids |-> storedIds]
    /\ emitted' = <<>>
    /\ effects' = {}
    /\ UNCHANGED <<optionsPage, naming, resolver>>
    /\ UNCHANGED popupVars
    /\ UNCHANGED <<progressLog, outcomes, strictMode, cancels, optionChanges, options, storedIds,
                   downloadQueue, activeDownloads, currentCollectionName,
                   currentTabId, isCancelled, totalPhotosForCurrentJob,
                   processedPhotosForCurrentJob, jobs, inflight, timers,
                   terminals, cancelRequested, dropped, drain>>

NextStartup ==
    \/ LoadLedger
    \/ Next

SpecStartup == InitStartup /\ [][NextStartup]_vars

\* ------------------------------------------------------ names of files
\* (src/lib/utils.js) strings are sequences of characters; the regular
\* expressions of the source are written out as scans of the sequence
maxLength == 180

\* the characters sanitizeFilename replaces by "_" (its first replace),
\* among them the control characters; the backquote is left out
SanitizedAway == {"<", ">", ":", "\"", "/", "\\", "|", "?", "*", "\t", "\n", "\r",
                  "~", "#", "%", "&", "{", "}", "$", "!", "@", "+", "="}
\* the characters applyTokenToFilename replaces by "_" in a token's value
PathUnsafe == {"<", ">", ":", "\"", "/", "\\", "|", "?", "*"}

MapChars(str, from, to) == [i \in 1..Len(str) |-> IF str[i] \in from THEN to ELSE str[i]]

\* the number of characters of the set the string starts with
RunLength(str, set) ==
    CHOOSE n \in 0..Len(str) :
        /\ \A k \in 1..n : str[k] \in set
        /\ n = Len(str) \/ str[n + 1] \notin set

\* position i lies in a run of at least `least` characters of the set
InRun(str, set, least, i) ==
    /\ str[i] \in set
    /\ \E s \in Max(1, i - least + 1)..i :
          /\ s + least - 1 <= Len(str)
          /\ \A k \in s..(s + least - 1) : str[k] \in set

\* every maximal run of characters of the set that is at least `least`
\* long, replaced by the one character to (the g flag: every match)
ReplaceRuns(str, set, least, to) ==
    LET marked == [i \in 1..Len(str) |->
                      IF ~InRun(str, set, least, i) THEN str[i]
                      ELSE IF i = 1 \/ str[i - 1] \notin set THEN to
                      ELSE ""]
    IN  SelectSeq(marked, LAMBDA c : c # "")

Reverse(str) == [i \in 1..Len(str) |-> str[Len(str) + 1 - i]]

\* the run of characters of the set at the start, and the one at the end,
\* each replaced by to (the pattern ^X+|X+$ with the g flag)
ReplaceEnds(str, set, to) ==
    LET lead == RunLength(str, set)
        body == SubSeq(str, lead + 1, Len(str))
        trail == RunLength(Reverse(body), set)
    IN  (IF lead > 0 THEN to ELSE <<>>)
        \o SubSeq(body, 1, Len(body) - trail)
        \o (IF trail > 0 THEN to ELSE <<>>)

\* String.prototype.substring(from, to_) with 0-based bounds, each clamped
\* to 0..length
Substring(str, from, upto) ==
    LET a == Max(0, Min(Len(str), from))
        b == Max(0, Min(Len(str), upto))
    IN  SubSeq(str, Min(a, b) + 1, Max(a, b))

\* the match of /\.[^.]+$/: the last dot and what follows it, when
\* something follows it; the empty string when there is no match
extensionMatch(str) ==
    LET dots == {i \in 1..Len(str) : str[i] = "."}
        last == CHOOSE i \in dots : \A k \in dots : k <= i
    IN  IF dots = {} \/ last = Len(str) THEN <<>>
        ELSE SubSeq(str, last, Len(str))

\* the length cap, which keeps the extension
Truncate(str) ==
    IF Len(str) > maxLength
    THEN LET extension == extensionMatch(str)
             nameWithoutExtension == Substring(str, 0, Len(str) - Len(extension))
         IN  Substring(nameWithoutExtension, 0, maxLength - Len(extension)) \o extension
    ELSE str

UpperCase(c) == CASE c = "c" -> "C" [] c = "o" -> "O" [] c = "n" -> "N"
                  [] c = "a" -> "A" [] c = "u" -> "U" [] c = "x" -> "X"
                  [] OTHER -> c
\* the reserved device names the characters of the model can spell
reservedNames == {<<"C", "O", "N">>, <<"A", "U", "X">>}
\* sanitized.split('.')[0]
BeforeFirstDot(str) ==
    LET dots == {i \in 1..Len(str) : str[i] = "."}
    IN  IF dots = {} THEN str
        ELSE SubSeq(str, 1, (CHOOSE i \in dots : \A k \in dots : i <= k) - 1)

\* the five replacements of sanitizeFilename, and a mutation without the
\* last one
ReplacementsUncollapsed(filename) ==
    LET r1 == MapChars(filename, SanitizedAway, "_")
        r2 == ReplaceRuns(r1, {"."}, 2, ".")
        r3 == ReplaceEnds(r2, {"."}, <<"_">>)
    IN  ReplaceRuns(r3, WhiteSpace, 1, "_")

Replacements(filename) ==
    LET r1 == MapChars(filename, SanitizedAway, "_")
        r2 == ReplaceRuns(r1, {"."}, 2, ".")
        r3 == ReplaceEnds(r2, {"."}, <<"_">>)
        r4 == ReplaceRuns(r3, WhiteSpace, 1, "_")
    IN  ReplaceRuns(r4, {"_"}, 2, "_")

\* sanitizeFilename at time now (the digits of Date.now()); fallback says
\* whether the result is one of the two timestamp names
sanitizeFilename(filename, now) ==
    IF filename = <<>>
    THEN [name |-> <<"d", "e", "f", "a", "u", "l", "t", "_", "f", "i", "l", "e",
                     "n", "a", "m", "e", "_">> \o now,
          fallback |-> TRUE]
    ELSE LET sanitized == Truncate(Replacements(filename))
         IN  IF sanitized = <<>> \/ sanitized = <<".">> \/ sanitized = <<".", ".">>
             THEN [name |-> <<"d", "o", "w", "n", "l", "o", "a", "d", "e", "d", "_",
                              "f", "i", "l", "e", "_">> \o now,
                   fallback |-> TRUE]
             ELSE [name |-> IF [i \in 1..Len(BeforeFirstDot(sanitized)) |->
                                   UpperCase(BeforeFirstDot(sanitized)[i])] \in reservedNames
                            THEN <<"_">> \o sanitized ELSE sanitized,
                   fallback |-> FALSE]

\* ------------------------------------------- the options page's steps
\* what the three number inputs of the form can hold: every string of at
\* most MaxInputLen characters over InputChars, and some longer ones
InputChars == {"0", "1"}
LongInputs == {<<"a", "b", "c">>, <<"-", "1">>, <<"3">>, <<"5", "0", "0">>,
               <<"1", "0", "0", "0", "0">>, <<"1", "0", "0", "0", "1">>,
               <<" ", "7">>, <<"3", ".", "9">>}
FormInputs == UNION {[1..k -> InputChars] : k \in 0..MaxInputLen} \cup LongInputs

\* the variables of the worker, which the options page leaves alone
workerVars == <<strictMode, options, storedIds, downloadedFileIds,
                downloadQueue, activeDownloads, currentCollectionName, currentTabId,
                isCancelled, totalPhotosForCurrentJob, processedPhotosForCurrentJob,
                jobs, inflight, timers, storageGets, emitted, effects, terminals,
                cancelRequested, dropped, cancels, optionChanges, drain, outcomes,
                progressLog, startup>>

\* the record saveOptions builds from the three inputs, which of its
\* numbers the clamp changed, and what parseInt read from each input
saveOptions(padding, concurrent, delay) ==
    LET parsed == [fileNameIndexPadding |->
                       OrDefault(parseInt(padding), defaultOptions.fileNameIndexPadding),
                   concurrentDownloads |->
                       OrDefault(parseInt(concurrent), defaultOptions.concurrentDownloads),
                   delayBetweenDownloads |->
                       OrDefault(parseInt(delay), defaultOptions.delayBetweenDownloads)]
        clamped == [fileNameIndexPadding |-> Clamp(0, 10, parsed.fileNameIndexPadding),
                    concurrentDownloads |-> Clamp(1, 10, parsed.concurrentDownloads),
                    delayBetweenDownloads |-> Clamp(0, 10000, parsed.delayBetweenDownloads)]
    IN  [by |-> "save", saved |-> clamped,
         clamped |-> [f \in DOMAIN parsed |-> clamped[f] # parsed[f]],
         entered |-> [fileNameIndexPadding |-> parseInt(padding),
                      concurrentDownloads |-> parseInt(concurrent),
                      delayBetweenDownloads |-> parseInt(delay)]]

\* a click on Save
SaveOptions ==
    /\ \E padding, concurrent, delay \in FormInputs :
          optionsPage' = saveOptions(padding, concurrent, delay)
    /\ UNCHANGED workerVars
    /\ UNCHANGED popupVars
    /\ UNCHANGED resolver
    /\ UNCHANGED naming

\* a click on Reset, confirmed or not
ResetOptions ==
    /\ \E confirmed \in BOOLEAN :
          optionsPage' = IF confirmed
                         THEN [NothingSaved EXCEPT !.by = "reset"]
                         ELSE optionsPage
    /\ UNCHANGED workerVars
    /\ UNCHANGED popupVars
    /\ UNCHANGED resolver
    /\ UNCHANGED naming

InitOptions ==
    /\ strictMode = FALSE
    /\ storedIds = {}
    /\ storageGets = <<>>
    /\ startup = [pending |-> FALSE, ids |-> {}]
    /\ optionsPage = NothingSaved
    /\ naming = NoName
    /\ Fresh
    /\ popup = PopupClosed
    /\ toPopup = <<>>
    /\ resolver = NotCalled

NextOptions ==
    \/ SaveOptions
    \/ ResetOptions

SpecOptions == InitOptions /\ [][NextOptions]_vars

\* ---- applyTokenToFilename (src/lib/utils.js)
\* the replacement patterns of String.prototype.replace the characters of
\* the model can spell: $$ stands for "$" and $& for the matched text
RECURSIVE Expand(_, _)
Expand(value, matched) ==
    IF value = <<>> THEN <<>>
    ELSE IF Len(value) >= 2 /\ value[1] = "$" /\ value[2] = "$"
    THEN <<"$">> \o Expand(SubSeq(value, 3, Len(value)), matched)
    ELSE IF Len(value) >= 2 /\ value[1] = "$" /\ value[2] = "&"
    THEN matched \o Expand(SubSeq(value, 3, Len(value)), matched)
    ELSE <<Head(value)>> \o Expand(Tail(value), matched)

\* result.replace(new RegExp(`{${token}}`, 'g'), tokenValue): every
\* occurrence of the text pat, left to right
RECURSIVE ReplaceAll(_, _, _)
ReplaceAll(str, pat, value) ==
    LET found == {i \in 1..Len(str) :
                     /\ str[i] = Head(pat)
                     /\ i + Len(pat) - 1 <= Len(str)
                     /\ SubSeq(str, i, i + Len(pat) - 1) = pat}
        first == CHOOSE i \in found : \A k \in found : i <= k
    IN  IF found = {} THEN str
        ELSE SubSeq(str, 1, first - 1)
             \o (IF \E i \in 1..Len(value) : value[i] = "$"
                 THEN Expand(value, pat) ELSE value)
             \o ReplaceAll(SubSeq(str, first + Len(pat), Len(str)), pat, value)

\* the loop over the keys of data, in their order of insertion
RECURSIVE ReplaceTokens(_, _)
ReplaceTokens(result, data) ==
    IF data = <<>> THEN result
    ELSE ReplaceTokens(ReplaceAll(result, <<"{">> \o Head(data).token \o <<"}">>,
                                  MapChars(Head(data).value, PathUnsafe, "_")),
                       Tail(data))

\* position k lies in a match of /{[^}]+}/g: the first "}" at or after k
\* closes a "{" that is at least two places before it, at or before k and
\* after the "}" before k
Unfulfilled(str, opens, closes, k) ==
    LET ahead == {j \in closes : j >= k}
        behind == {p \in closes : p < k}
        close == CHOOSE j \in ahead : \A c \in ahead : j <= c
    IN  /\ ahead # {}
        /\ \E open \in opens :
              /\ open <= k
              /\ open <= close - 2
              /\ \A p \in behind : p < open

RemoveUnfulfilled(str) ==
    LET opens == {i \in 1..Len(str) : str[i] = "{"}
        closes == {i \in 1..Len(str) : str[i] = "}"}
        marked == [k \in 1..Len(str) |->
                      IF Unfulfilled(str, opens, closes, k) THEN "" ELSE str[k]]
    IN  IF opens = {} \/ closes = {} THEN str
        ELSE SelectSeq(marked, LAMBDA c : c # "")

Separators == {"-", "_"}

\* applyTokenToFilename at time now; fallback says whether the result is
\* the timestamp name
applyTokenToFilename(rule, data, now) ==
    LET replaced == ReplaceTokens(rule, data)
        trimmed == ReplaceEnds(RemoveUnfulfilled(replaced), WhiteSpace, <<>>)
        c1 == ReplaceRuns(trimmed, {"_"}, 2, "_")
        c2 == ReplaceRuns(c1, {"-"}, 2, "-")
        c3 == ReplaceRuns(c2, Separators, 2, "_")
        result == ReplaceEnds(c3, Separators, <<>>)
    IN  IF result = <<>>
        THEN [name |-> <<"d", "e", "f", "a", "u", "l", "t", "_", "n", "a", "m", "e", "_">> \o now, fallback |-> TRUE]
        ELSE [name |-> result, fallback |-> FALSE]

\* the tokens processPhotosDownload offers to the folder rule
\* (src/unnamed/part_003), for a collection name and a date
FolderData(collectionName, date) ==
    << [token |-> <<"a", "l", "b", "u", "m", "_", "n", "a", "m", "e">>, value |-> collectionName],
       [token |-> <<"o", "w", "n", "e", "r", "_", "n", "a", "m", "e">>, value |-> <<"F", "a", "c", "e", "b", "o", "o", "k", "U", "s", "e", "r">>],
       [token |-> <<"d", "a", "t", "e", "_", "Y", "Y", "Y", "Y", "-", "M", "M", "-", "D", "D">>, value |-> date.year \o <<"-">> \o date.month \o <<"-">> \o date.day],
       [token |-> <<"d", "a", "t", "e", "_", "M", "M", "-", "D", "D", "-", "Y", "Y", "Y", "Y">>, value |-> date.month \o <<"-">> \o date.day \o <<"-">> \o date.year],
       [token |-> <<"d", "a", "t", "e", "_", "D", "D", "-", "M", "M", "-", "Y", "Y", "Y", "Y">>, value |-> date.day \o <<"-">> \o date.month \o <<"-">> \o date.year],
       [token |-> <<"t", "i", "m", "e", "s", "t", "a", "m", "p", "_", "u", "n", "i", "x">>, value |-> date.unix],
       [token |-> <<"y", "e", "a", "r">>, value |-> date.year],
       [token |-> <<"m", "o", "n", "t", "h">>, value |-> date.month],
       [token |-> <<"d", "a", "y">>, value |-> date.day] >>

\* ---- the inputs of the naming functions
\* readings of Date.now(), as digits
Clock == {<<"1", "7">>, <<"1", "8">>}
\* the day of a job: 9 March 2024, 00:00:00 UTC
Dates == {[year |-> <<"2", "0", "2", "4">>, month |-> <<"0", "3">>, day |-> <<"0", "9">>,
           unix |-> <<"1", "7", "0", "9", "9", "4", "2", "4", "0", "0">>]}

Pad(n) == [i \in 1..n |-> "a"]

\* file names: up to MaxNameLen characters, then nothing or enough to
\* pass the length cap, then up to MaxNameLen characters again
NameChars == {"a", ".", "_", " ", "!"}
Cores == UNION {[1..k -> NameChars] : k \in 0..MaxNameLen}
FileNames == {pre \o Pad(n) \o post : pre \in Cores, n \in {0, maxLength - MaxNameLen},
                                      post \in Cores}

\* folder rules: up to MaxAtoms tokens and separators; {x} has no key
UnmatchedToken == <<"{", "x", "}">>
AlbumToken == <<"{">> \o <<"a", "l", "b", "u", "m", "_", "n", "a", "m", "e">> \o <<"}">>
Atoms == {UnmatchedToken, AlbumToken, <<"_">>, <<"-">>, <<" ">>}
RECURSIVE Join(_)
Join(parts) == IF parts = <<>> THEN <<>> ELSE Head(parts) \o Join(Tail(parts))
FolderRules == {Join(parts) : parts \in UNION {[1..k -> Atoms] : k \in 1..MaxAtoms}}
\* rules without the album: up to MaxJoined tokens without a key and
\* separators
UnmatchedAtoms == Atoms \ {AlbumToken}
UnmatchedRules ==
    {Join(parts) : parts \in UNION {[1..k -> UnmatchedAtoms] : k \in 1..MaxJoined}}

MyTrip == <<"M", "y", " ", "T", "r", "i", "p", "!">>
AlbumNames == {MyTrip, <<"a", "/", "b", ":", "c">>, <<"a", " ", "_", "b">>, <<".", ".">>, <<" ">>, <<"c", "o", "n">>, <<"$", "&">>, <<"{", "o", "w", "n", "e", "r", "_", "n", "a", "m", "e", "}">>, Pad(maxLength) \o <<".", "a", " ", "b">>}

\* ---- the steps of the naming functions
\* lines 170-187 of processPhotosDownload: the folder rule rendered, and
\* the rendered name sanitized
RenderFolder ==
    /\ naming.pc = "rule"
    /\ \E date \in Dates, now \in Clock :
          LET baseFolderName == applyTokenToFilename(naming.rule,
                                                     FolderData(naming.album, date), now)
          IN  \E later \in Clock :
                 naming' = [naming EXCEPT !.pc = "folder",
                                          !.rendered = baseFolderName,
                                          !.sanitized =
                                              sanitizeFilename(baseFolderName.name, later)]
    /\ UNCHANGED workerVars
    /\ UNCHANGED popupVars
    /\ UNCHANGED resolver
    /\ UNCHANGED optionsPage

\* sanitizeFilename applied to a name, and to its own result
Sanitize ==
    /\ naming.pc = "name"
    /\ \E now \in Clock :
          naming' = [naming EXCEPT !.pc = "sanitized",
                                   !.sanitized = sanitizeFilename(naming.input, now)]
    /\ UNCHANGED workerVars
    /\ UNCHANGED popupVars
    /\ UNCHANGED resolver
    /\ UNCHANGED optionsPage

SanitizeAgain ==
    /\ naming.pc = "sanitized"
    /\ \E now \in Clock :
          naming' = [naming EXCEPT !.pc = "again",
                                   !.again = sanitizeFilename(naming.sanitized.name, now)]
    /\ UNCHANGED workerVars
    /\ UNCHANGED popupVars
    /\ UNCHANGED resolver
    /\ UNCHANGED optionsPage

\* the worker and the options page at rest
Quiet ==
    /\ strictMode = FALSE
    /\ storedIds = {}
    /\ storageGets = <<>>
    /\ startup = [pending |-> FALSE, ids |-> {}]
    /\ optionsPage = NothingSaved
    /\ Fresh
    /\ popup = PopupClosed
    /\ toPopup = <<>>
    /\ resolver = NotCalled

InitSanitize ==
    /\ Quiet
    /\ \E x \in FileNames : naming = [NoName EXCEPT !.pc = "name", !.input = x]

NextSanitize ==
    \/ Sanitize
    \/ SanitizeAgain

SpecSanitize == InitSanitize /\ [][NextSanitize]_vars

InitRender ==
    /\ Quiet
    /\ \E rule \in FolderRules, album \in AlbumNames :
          naming = [NoName EXCEPT !.pc = "rule", !.rule = rule, !.album = album]

NextRender == RenderFolder

SpecRender == InitRender /\ [][NextRender]_vars

\* the same step for the rules without the album
InitUnmatched ==
    /\ Quiet
    /\ \E rule \in UnmatchedRules :
          naming = [NoName EXCEPT !.pc = "rule", !.rule = rule, !.album = MyTrip]

SpecUnmatched == InitUnmatched /\ [][NextRender]_vars


\* ------------------------------------------------------------ properties
QueuedOf(j) == {it \in SeqRange(downloadQueue) : it.job = j}
TermTotal(j) == terminals[j]["Completed"] + terminals[j]["Cancelled"] + terminals[j]["Error"]
Resolving == {j \in JobIds : jobs[j].pc \notin {"new", "done"}}
\* nothing is pending: no download, timer, options read or job function
Quiescent == inflight = {} /\ timers = 0 /\ storageGets = <<>> /\ Resolving = {}
\* a job is in progress: items pending or in flight, or a resolution running
JobActive == downloadQueue # <<>> \/ inflight # {} \/ Resolving # {}

C3_ExactlyOneTerminal ==
    \A j \in JobIds :
        /\ TermTotal(j) <= 1
        /\ (jobs[j].pc = "done" /\ QueuedOf(j) = {} /\ Quiescent) => TermTotal(j) = 1

\* C4: a job that enqueued n >= 1 items and saw no cancel request has, once
\* every download has settled and every timer and callback has run, had all
\* its items dispatched and a Completed event emitted (the final state the
\* liveness claim promises), also when an earlier job was cancelled.
C4_CompletedWhenDrained ==
    \A j \in JobIds :
        (jobs[j].pc = "done" /\ jobs[j].queued >= 1 /\ ~cancelRequested[j] /\ Quiescent)
            => (QueuedOf(j) = {} /\ terminals[j]["Completed"] >= 1)

\* C5: a Cancelled event is emitted only when no worker is in flight
\* (active = 0), and no progress event of a job is emitted after its
\* Cancelled event.
C5_CancelledAfterDrain ==
    \A i \in 1..Len(emitted) :
        /\ emitted[i].type = "Cancelled" => (inflight = {} /\ activeDownloads = 0)
        /\ emitted[i].type = "Progress" => terminals[emitted[i].job]["Cancelled"] = 0

\* C6: after a cancel request made with N > 0 items pending and k in
\* flight, none of the N items is dispatched afterwards (none is queued or
\* in flight again), the Cancelled event has been emitted, and at most k
\* items settled between the request and that event.
C6_CancelDropsPending ==
    /\ \A d \in inflight : ItemKey(d) \notin dropped
    /\ \A it \in SeqRange(downloadQueue) : ItemKey(it) \notin dropped
    /\ \A j \in JobIds :
          drain[j].k >= 0 => (terminals[j]["Cancelled"] >= 1 /\ drain[j].further <= drain[j].k)

\* C6 witness: a cancel request arrived with items pending and items in
\* flight, and every item that was in flight has since settled.
C6_Witness ==
    \E j \in JobIds :
        /\ drain[j].k >= 1
        /\ dropped # {}
        /\ inflight = {}
        /\ processedPhotosForCurrentJob >= 1

C8_SecondJobRejected ==
    [][(JobActive /\ Cardinality(Started') > Cardinality(Started))
        => UNCHANGED <<isCancelled, downloadQueue, totalPhotosForCurrentJob,
                       processedPhotosForCurrentJob, activeDownloads,
                       currentCollectionName>>]_vars

C10_EmptyCollectionFails ==
    \A j \in JobIds :
        jobs[j].resolved = "empty"
            => (terminals[j]["Error"] >= 1 /\ terminals[j]["Completed"] = 0
                /\ jobs[j].queued = 0)

\* ------------------------------------------- the same claims, narrowed
\* C1 with the options never changed: the in-flight downloads stay within
\* the limit.  Fails: the cancel branch zeroes the counter under a running
\* download and the next job dispatches a full batch beside it.
ActiveWithinLimitFixedOptions ==
    optionChanges = 0 => Cardinality(inflight) <= options.concurrentDownloads

\* C3 for one job and no cancel request: at most one Completed event.
\* Fails: every pacing timer that finds the queue drained emits one.
OneCompletedSingleJob ==
    (cancels = 0 /\ Cardinality(Started) <= 1)
        => \A j \in JobIds : terminals[j]["Completed"] <= 1

\* C4 where the undeclared assignment does not throw, for the job started
\* after the cancel of an earlier job.  Fails: the counter is left at -1.
CompletedAfterCancelledJob ==
    \A j \in JobIds \ {1} :
        (/\ ~strictMode /\ cancelRequested[1] /\ ~cancelRequested[j]
         /\ jobs[j].pc = "done" /\ jobs[j].queued >= 1 /\ Quiescent)
            => terminals[j]["Completed"] >= 1

\* C4 where the undeclared assignment does not throw, for a job that is the
\* only one ever started.  Holds.
CompletedSingleJob ==
    (/\ ~strictMode /\ Started = {1} /\ ~cancelRequested[1]
     /\ jobs[1].pc = "done" /\ jobs[1].queued >= 1 /\ Quiescent)
        => (QueuedOf(1) = {} /\ terminals[1]["Completed"] >= 1)

\* C9's bound while a single job has been started.  Holds.
ProcessedWithinTotalSingleJob ==
    Cardinality(Started) <= 1
        => processedPhotosForCurrentJob <= totalPhotosForCurrentJob

\* C9's bound when every earlier job was cancelled before the next one was
\* started.  Fails: the next start clears isCancelled, the cancelled job
\* resumes, and its download settles into the new job's counters.
ProcessedWithinTotalAfterCancel ==
    (\A j \in Started : cancelRequested[j] <=> j < Cardinality(Started))
        => processedPhotosForCurrentJob <= totalPhotosForCurrentJob

\* --------------------------------------------------- ledger and failures
InFlightOf(j) == {d \in inflight : d.job = j}
\* the job's list went through the dedup filter
Filtered(j) == jobs[j].pc = "done" /\ jobs[j].resolved \in {"photos", "empty"}
\* job j is a second run of job i: the same photo list, requested after i,
\* both filtered with skipDownloaded set
SecondRun(i, j) ==
    /\ i < j
    /\ Filtered(i) /\ Filtered(j)
    /\ jobs[i].photos = jobs[j].photos
    /\ jobs[i].opts.skipDownloaded /\ jobs[j].opts.skipDownloaded

\* C11: with skipDownloaded set, no photo whose id was in the ledger when
\* the job was filtered is in that job's queue or in flight for it; with
\* skipDownloaded not set, the filter removes no photo.
C11_DedupFilter ==
    \A j \in JobIds :
        Filtered(j) =>
            IF jobs[j].opts.skipDownloaded
            THEN \A it \in QueuedOf(j) \cup InFlightOf(j) : it.id \notin jobs[j].ledgerAt
            ELSE jobs[j].queued = Len(jobs[j].photos)

\* C11 witness: a job filtered with skipDownloaded set while the ledger held
\* one of its photos has another of its photos in flight.
C11_Witness ==
    \E j \in JobIds :
        /\ Filtered(j) /\ jobs[j].opts.skipDownloaded
        /\ jobs[j].ledgerAt \cap SeqRange(jobs[j].photos) # {}
        /\ InFlightOf(j) # {}

\* C12: when the same job is run a second time with skipDownloaded set,
\* after the first run has ended and with no cancel request, the second run
\* dispatches no download and emits Completed.
C12_SecondRunIdle ==
    \A i, j \in JobIds :
        (/\ SecondRun(i, j) /\ jobs[j].idleAtStart /\ Quiescent
         /\ ~cancelRequested[i] /\ ~cancelRequested[j])
            => (outcomes[j].dispatched = 0 /\ terminals[j]["Completed"] >= 1)

\* C12 where every photo of the job is in the ledger when the second run
\* filters its list: the second run enqueues and dispatches no download
\* and emits Completed.  Holds.
SecondRunAfterSaves ==
    \A i, j \in JobIds :
        (SecondRun(i, j) /\ SeqRange(jobs[j].photos) \subseteq jobs[j].ledgerAt)
            => /\ outcomes[j].dispatched = 0
               /\ jobs[j].queued = 0
               /\ QueuedOf(j) = {}
               /\ terminals[j]["Completed"] >= 1

\* the first run saved every photo of a non-empty job and the second run
\* has been filtered
SecondRunAfterSavesReached ==
    \E i, j \in JobIds :
        /\ SecondRun(i, j)
        /\ jobs[j].photos # <<>>
        /\ outcomes[i].saved = Len(jobs[i].photos)
        /\ SeqRange(jobs[j].photos) \subseteq jobs[j].ledgerAt

\* C13: no step removes an id from the in-memory ledger or from the
\* persisted ledger, whatever the order of the startup read, the item
\* successes and the whole-set writes.
C13_LedgerAppendOnly ==
    [][/\ downloadedFileIds \subseteq downloadedFileIds'
       /\ storedIds \subseteq storedIds']_vars

\* C13 witness: the startup read delivered a non-empty persisted ledger and
\* a later item success has added a new id and written the set back.
C13_Witness ==
    /\ ~startup.pending
    /\ startup.ids # {}
    /\ startup.ids \subseteq storedIds
    /\ \E e \in effects : e.what = "ledger" /\ e.id \notin startup.ids

FailureIsolatedSingleJob ==
    /\ [][(Started' = {1} /\ outcomes'[1].failed > outcomes[1].failed /\ ~cancelRequested[1])
            => /\ processedPhotosForCurrentJob' = processedPhotosForCurrentJob + 1
               /\ CountEv(emitted', "ItemError", 1) = 1]_vars
    /\ []((/\ Started = {1} /\ outcomes[1].failed >= 1 /\ ~cancelRequested[1]
           /\ Filtered(1) /\ Quiescent)
            => /\ outcomes[1].dispatched = jobs[1].queued
               /\ terminals[1]["Completed"] >= 1)

\* a single job has ended after one of its items failed
FailureIsolatedReached ==
    /\ Started = {1} /\ outcomes[1].failed >= 1 /\ outcomes[1].saved >= 1
    /\ ~cancelRequested[1] /\ Filtered(1) /\ Quiescent

\* the progress events a job of n items is to send: processed 1, 2, ..., n
\* of total n
ProgressOneToN(j, n) == [p \in 1..n |-> Progress(j, p, n)]

\* C15: a job of n >= 1 items in which every fetch and save succeeded and
\* that saw no cancel request has, once everything has settled, sent exactly
\* the progress events processed = 1, ..., n of total n, in that order, and
\* exactly one Completed event and no other terminal event.
C15_ProgressSequence ==
    \A j \in JobIds :
        (/\ Filtered(j) /\ jobs[j].queued >= 1 /\ ~cancelRequested[j]
         /\ outcomes[j].saved = jobs[j].queued /\ Quiescent)
            => /\ progressLog[j] = ProgressOneToN(j, jobs[j].queued)
               /\ terminals[j]["Completed"] = 1
               /\ TermTotal(j) = 1

\* C15 for the only job started, leaving aside the events sent before the
\* first dispatch and the number of Completed events.  Holds.
ProgressSequenceSingleJob ==
    (/\ Started = {1} /\ Filtered(1) /\ jobs[1].queued >= 1 /\ ~cancelRequested[1]
     /\ outcomes[1].saved = jobs[1].queued /\ Quiescent)
        => /\ SelectSeq(progressLog[1], LAMBDA e : e.processed > 0)
                = ProgressOneToN(1, jobs[1].queued)
           /\ terminals[1]["Completed"] >= 1
           /\ terminals[1]["Error"] = 0

C17_SavedWithinRange ==
    optionsPage.by # "none" =>
        /\ optionsPage.saved.concurrentDownloads \in 1..10
        /\ optionsPage.saved.delayBetweenDownloads \in 0..10000
        /\ optionsPage.saved.fileNameIndexPadding \in 0..10

\* C17 witness: a save whose delay input was above the range and whose
\* concurrency input was below it.
C17_Witness ==
    /\ optionsPage.by = "save"
    /\ optionsPage.clamped.delayBetweenDownloads
    /\ optionsPage.saved.delayBetweenDownloads = 10000
    /\ optionsPage.clamped.concurrentDownloads
    /\ optionsPage.saved.concurrentDownloads = 1

\* ---- the naming functions
\* C18: the sanitizer is idempotent: whenever sanitizing a name did not
\* take the timestamp fallback, sanitizing the result again returns it
\* unchanged, also for names longer than the length cap
C18_SanitizerIdempotent ==
    naming.pc = "again" /\ ~naming.sanitized.fallback =>
        naming.again.name = naming.sanitized.name

\* the same for the names the length cap leaves alone
IdempotentWithinCap ==
    naming.pc = "again" /\ ~naming.sanitized.fallback /\ Len(naming.input) <= maxLength =>
        naming.again.name = naming.sanitized.name
IdempotentWithinCapReached ==
    /\ naming.pc = "again"
    /\ ~naming.sanitized.fallback
    /\ Len(naming.input) <= maxLength
    /\ naming.sanitized.name # naming.input

\* a rule of tokens without a key, the first and the last character of
\* the rule included, joined by "_", "-" and whitespace only
AllUnmatched(rule) ==
    LET rest == ReplaceAll(rule, UnmatchedToken, <<>>)
    IN  /\ rule # <<>>
        /\ Head(rule) = "{"
        /\ rule[Len(rule)] = "}"
        /\ \A i \in 1..Len(rest) : rest[i] \in Separators \cup WhiteSpace

\* C19: a rule in which no token has a key, its tokens joined only by
\* "_", "-" or whitespace, renders to the timestamp fallback name, never
\* to the empty string and never to separators alone
C19_UnmatchedYieldsFallback ==
    naming.pc = "folder" /\ AllUnmatched(naming.rule) =>
        /\ naming.rendered.fallback
        /\ naming.rendered.name # <<>>
        /\ \E i \in 1..Len(naming.rendered.name) :
              naming.rendered.name[i] \notin Separators \cup WhiteSpace

\* the same when no whitespace stands between two separators
UnmatchedYieldsFallbackNoInnerSpace ==
    /\ naming.pc = "folder"
    /\ AllUnmatched(naming.rule)
    /\ \A i \in 2..(Len(naming.rule) - 1) :
          naming.rule[i] \in WhiteSpace =>
              naming.rule[i - 1] \notin Separators \/ naming.rule[i + 1] \notin Separators
    => naming.rendered.fallback
UnmatchedYieldsFallbackReached ==
    /\ naming.pc = "folder"
    /\ AllUnmatched(naming.rule)
    /\ \E i \in 1..Len(naming.rule) : naming.rule[i] \in Separators
    /\ naming.rendered.fallback

\* C20: the rule "{album_name}" with the album "My Trip!" gives the
\* folder "My_Trip_", and every folder name, rendered and then sanitized,
\* has no path-unsafe character, no whitespace and no two underscores in
\* a row
C20_FolderNameSafe ==
    naming.pc = "folder" =>
        LET folder == naming.sanitized.name
        IN  /\ naming.rule = AlbumToken /\ naming.album = MyTrip => folder = <<"M", "y", "_", "T", "r", "i", "p", "_">>
            /\ \A i \in 1..Len(folder) : folder[i] \notin PathUnsafe \cup WhiteSpace
            /\ \A i \in 1..(Len(folder) - 1) : ~(folder[i] = "_" /\ folder[i + 1] = "_")
C20_Witness ==
    /\ naming.pc = "folder"
    /\ naming.rule = AlbumToken
    /\ naming.album = MyTrip
    /\ naming.rendered.name = MyTrip
    /\ naming.sanitized.name = <<"M", "y", "_", "T", "r", "i", "p", "_">>

\* ------------------------------------------ completion and cancellation
\* C21: a Completed event is emitted only in a state where the pending
\* list is empty, no download is in flight, the job is not cancelled and
\* processed >= total > 0; never while an item of the job is pending or
\* in flight.
C21_CompletedOnlyWhenDrained ==
    \A i \in 1..Len(emitted) :
        emitted[i].type = "Completed" =>
            /\ downloadQueue = <<>>
            /\ inflight = {}
            /\ ~isCancelled
            /\ totalPhotosForCurrentJob > 0
            /\ processedPhotosForCurrentJob >= totalPhotosForCurrentJob

\* C21 for the events of the two completion checks of startProcessingQueue
\* alone (a step of the queue driver leaves the job functions where they
\* are).  Fails: the cancel branch zeroes the active counter under a
\* running download, and the first check does not compare the counters.
CompletedByDriverWhenDrained ==
    [][(jobs' = jobs /\ \E i \in 1..Len(emitted') : emitted'[i].type = "Completed")
          => /\ downloadQueue' = <<>>
             /\ inflight' = {}
             /\ ~isCancelled'
             /\ totalPhotosForCurrentJob' > 0
             /\ processedPhotosForCurrentJob' >= totalPhotosForCurrentJob']_vars

\* the same while a single job has been started and no cancel request has
\* arrived.  Holds.
CompletedByDriverSingleJob ==
    [][(/\ jobs' = jobs
        /\ Cardinality(Started) <= 1
        /\ cancels = 0
        /\ \E i \in 1..Len(emitted') : emitted'[i].type = "Completed")
          => /\ downloadQueue' = <<>>
             /\ inflight' = {}
             /\ ~isCancelled'
             /\ totalPhotosForCurrentJob' > 0
             /\ processedPhotosForCurrentJob' >= totalPhotosForCurrentJob']_vars
CompletedByDriverReached ==
    /\ Cardinality(Started) <= 1
    /\ cancels = 0
    /\ jobs[1].pc = "done"
    /\ jobs[1].queued >= 2
    /\ \E i \in 1..Len(emitted) : emitted[i].type = "Completed"

\* a step in which job j makes a check of the cancelled flag: one of its
\* downloads settles (the catch and the finally handler), or its pending
\* resolution returns
ChecksFlag(j) ==
    \/ \E d \in inflight : d.job = j /\ d \notin inflight' /\ d.stage # "fetch"
    \/ \E d \in inflight : d.job = j /\ d.stage = "fetch"
                           /\ d \notin inflight' /\ [d EXCEPT !.stage = "save"] \notin inflight'
    \/ jobs[j].pc = "resolving" /\ jobs'[j].pc = "done"

\* C22: once the cancelled flag is true for a job it never reverts for
\* that job: every later check made for the job (its pending resolution,
\* its in-flight downloads) sees it true, also when a new job request has
\* arrived in between.
C22_CancelledSticks ==
    [][\A j \in JobIds : (cancelRequested[j] /\ ChecksFlag(j)) => isCancelled]_vars

\* C22 while no other job has been requested.  Holds.
CancelledSticksSingleJob ==
    [][\A j \in JobIds :
          (cancelRequested[j] /\ ChecksFlag(j) /\ Cardinality(Started) <= 1) => isCancelled]_vars
CancelledSticksReached ==
    /\ Cardinality(Started) = 1
    /\ cancelRequested[1]
    /\ outcomes[1].dispatched >= 1
    /\ inflight = {}
    /\ isCancelled

\* the dedup filter removed every photo of the non-empty list of job j
AllFiltered(j) ==
    /\ Filtered(j)
    /\ jobs[j].photos # <<>>
    /\ jobs[j].queued = 0

OneCompletedForAllFiltered ==
    \A j \in JobIds :
        AllFiltered(j) =>
            /\ terminals[j]["Completed"] = 1
            /\ terminals[j]["Error"] = 0
            /\ outcomes[j].dispatched = 0

\* C23 for a job requested when nothing of an earlier job was pending.
\* Holds.
AllFilteredCompletesWhenIdle ==
    \A j \in JobIds :
        (AllFiltered(j) /\ jobs[j].idleAtStart) =>
            /\ terminals[j]["Completed"] = 1
            /\ terminals[j]["Error"] = 0
            /\ outcomes[j].dispatched = 0
            /\ QueuedOf(j) = {} /\ InFlightOf(j) = {}
AllFilteredReached ==
    \E j \in JobIds :
        /\ AllFiltered(j) /\ jobs[j].idleAtStart
        /\ Len(jobs[j].photos) = MaxPhotos
        /\ Cardinality(Started) = MaxJobs
        /\ Quiescent

\* ------------------------------------------------- the per-item operation
\* C24: each time an item's save succeeds, its id is added to the
\* in-memory ledger and the whole ledger is persisted in the same step:
\* after any successful item the persisted ledger holds the ids of all
\* the items the job has saved so far.
C24_LedgerWriteThrough ==
    /\ \A j \in JobIds : outcomes[j].ids \subseteq (storedIds \cap downloadedFileIds)
    /\ \A e \in effects : e.what = "ledger" => storedIds = downloadedFileIds

\* C24 witness: a job has saved two items and the second save has just
\* been written through.
C24_Witness ==
    \E j \in JobIds :
        /\ Cardinality(outcomes[j].ids) >= 2
        /\ outcomes[j].ids \subseteq storedIds
        /\ \E e \in effects : e.what = "ledger" /\ e.job = j

\* C25: an id enters the dedup ledger only for an item whose fetch and
\* save both succeeded; the id of an item that failed with a non-success
\* status, a thrown fetch error or a rejected or blocked save is not
\* added by that operation.
C25_LedgerOnlyOnSuccess ==
    [][/\ (downloadedFileIds' # downloadedFileIds \/ storedIds' # storedIds) =>
            \E d \in inflight :
                /\ d.stage = "save"
                /\ d \notin inflight'
                /\ CountEv(emitted', "ItemError", d.job) = 0
                /\ downloadedFileIds' = downloadedFileIds \cup {d.id}
                /\ storedIds' \subseteq storedIds \cup downloadedFileIds'
       /\ \A j \in JobIds :
            outcomes'[j].failed > outcomes[j].failed =>
                UNCHANGED <<downloadedFileIds, storedIds>>]_vars

\* C25 witness: of the two items of a job one was saved and one failed,
\* and the ledger holds one id.
C25_Witness ==
    \E j \in JobIds :
        /\ outcomes[j].saved = 1
        /\ outcomes[j].failed = 1
        /\ Cardinality(downloadedFileIds) = 1
        /\ InFlightOf(j) = {}

\* item d fails in its fetch in this step: it was suspended in fetch and
\* settles without reaching the save
FetchFails(d) ==
    /\ d \in inflight
    /\ d.stage = "fetch"
    /\ d \notin inflight'
    /\ [d EXCEPT !.stage = "save"] \notin inflight'

FetchFailureQuietUnderFlag ==
    [][\A d \in inflight :
          (isCancelled /\ FetchFails(d)) =>
              /\ CountEv(emitted', "ItemError", d.job) = 0
              /\ effects' = {}
              /\ UNCHANGED <<downloadedFileIds, storedIds>>]_vars
FetchFailureQuietReached ==
    \E j \in JobIds :
        /\ isCancelled
        /\ cancelRequested[j]
        /\ outcomes[j].failed >= 1
        /\ emitted # <<>>
        /\ CountEv(emitted, "ItemError", j) = 0
        /\ emitted[Len(emitted)].type = "Progress"

\* no operation is ever entered while isCancelled is set: the dispatch
\* loop breaks before it (the entry check of downloadPhoto never fires)
NeverSkippedAtEntry == \A d \in inflight : d.stage # "skip"

\* ------------------------------------------------------- order and pacing
\* the indices of the items of job j that this step dispatches
DispatchedNow(j) ==
    {d.index : d \in {e \in inflight' \ inflight : e.job = j /\ e.stage # "save"}}

\* C27: items are dispatched in the order they were enqueued: an item of
\* a job is never dispatched before an item of the job enqueued ahead of
\* it, however settlements and timer callbacks interleave.  Every step
\* dispatches the next indices of the job, and what stays pending comes
\* after them, in order.
C27_DispatchInOrder ==
    [][\A j \in JobIds :
          /\ DispatchedNow(j) = (outcomes[j].dispatched + 1)..outcomes'[j].dispatched
          /\ \A it \in QueuedOf(j)' : it.index > outcomes'[j].dispatched
          /\ \A p, q \in 1..Len(downloadQueue') :
                (p < q /\ downloadQueue'[p].job = j /\ downloadQueue'[q].job = j)
                    => downloadQueue'[p].index < downloadQueue'[q].index]_vars

\* C27 witness: the first item of a job has been dispatched and has
\* settled, the second is in flight and nothing is pending.
C27_Witness ==
    \E j \in JobIds :
        /\ jobs[j].queued = 2
        /\ outcomes[j].dispatched = 2
        /\ outcomes[j].saved + outcomes[j].failed = 1
        /\ \E d \in InFlightOf(j) : d.index = 2
        /\ options.concurrentDownloads = 1
        /\ jobs[j].opts.concurrentDownloads = 1

\* the items of job j that have settled, and the pacing timers that have
\* fired while no cancel request was made (every settlement starts one)
Settled(j) == outcomes[j].saved + outcomes[j].failed
TimersFired(j) == Settled(j) - timers

PacingOneSlot ==
    (/\ Started = {1} /\ cancels = 0
     /\ jobs[1].opts.concurrentDownloads = 1 /\ options.concurrentDownloads = 1) =>
        outcomes[1].dispatched <= Min(jobs[1].queued, 1) + TimersFired(1)
PacingOneSlotReached ==
    /\ Started = {1} /\ cancels = 0
    /\ jobs[1].opts.concurrentDownloads = 1 /\ options.concurrentDownloads = 1
    /\ outcomes[1].dispatched = 2
    /\ TimersFired(1) = 1

\* the step in which the pending album resolution of job j returns
ResolutionReturns(j) ==
    /\ jobs[j].pc = "resolving"
    /\ jobs'[j].pc = "done"

\* a step that builds no queue, dispatches nothing and sends neither an
\* Error nor a Completed event
QuietReturn ==
    /\ downloadQueue' = downloadQueue
    /\ inflight' = inflight
    /\ \A i \in 1..Len(emitted') : emitted'[i].type \notin {"Error", "Completed"}

\* C29: when a cancellation request arrived while the photo list of job j
\* was still being resolved, the return of the resolution builds no queue,
\* dispatches no download and emits no Error or Completed event, whatever
\* requests (a new job start included) arrived before it returned.
C29_CancelWhileResolving ==
    [][\A j \in JobIds :
          (cancelRequested[j] /\ ResolutionReturns(j))
              => (QuietReturn /\ jobs'[j].queued = 0)]_vars

\* C29 while no request has reset the flag since the cancellation.  Holds.
CancelWhileResolvingUnderFlag ==
    [][\A j \in JobIds :
          (cancelRequested[j] /\ isCancelled /\ ResolutionReturns(j))
              => (QuietReturn /\ jobs'[j].queued = 0)]_vars
CancelWhileResolvingReached ==
    /\ Cardinality(Started) = 1
    /\ cancelRequested[1]
    /\ isCancelled
    /\ jobs[1].pc = "done"
    /\ jobs[1].resolved = "error"
    /\ terminals[1]["Error"] = 0
    /\ terminals[1]["Completed"] = 0


\* ------------------------------------------------------- queue items
\* the photos of job j that its dedup filter let through, in list order
Survivors(j) ==
    IF jobs[j].opts.skipDownloaded
    THEN SelectSeq(jobs[j].photos, LAMBDA p : p \notin jobs[j].ledgerAt)
    ELSE jobs[j].photos

\* the step in which job j builds its queue while it is not cancelled
BuildsQueue(j) ==
    /\ jobs[j].pc # "done"
    /\ jobs'[j].pc = "done"
    /\ jobs'[j].queued > 0
    /\ ~isCancelled

\* C30: the queue built for a job with n surviving photos carries the
\* indices 1, 2, ..., n in enqueue order, each exactly once, and an item
\* keeps the index it was created with: pending or in flight, the item
\* with index i is the i-th surviving photo of its job.
C30_IndicesOrdinal ==
    /\ [][\A j \in JobIds :
            BuildsQueue(j) =>
                /\ Len(downloadQueue') = jobs'[j].queued
                /\ \A i \in 1..Len(downloadQueue') :
                      /\ downloadQueue'[i].job = j
                      /\ downloadQueue'[i].index = i]_vars
    /\ [](\A j \in JobIds : \A it \in QueuedOf(j) \cup InFlightOf(j) :
            /\ it.index \in 1..jobs[j].queued
            /\ jobs[j].queued = Len(Survivors(j))
            /\ it.id = Survivors(j)[it.index])
    /\ [](/\ \A p, q \in 1..Len(downloadQueue) :
                ItemKey(downloadQueue[p]) = ItemKey(downloadQueue[q]) => p = q
          /\ \A d, e \in inflight : ItemKey(d) = ItemKey(e) => d = e
          /\ \A d \in inflight : \A p \in 1..Len(downloadQueue) :
                ItemKey(d) # ItemKey(downloadQueue[p]))

\* C30 witness: a job queued two items; the item with index 1 has been
\* dispatched and has moved on to its save, the item with index 2 is
\* still pending.
C30_Witness ==
    \E j \in JobIds :
        /\ jobs[j].queued = 2
        /\ \E d \in InFlightOf(j) : d.index = 1 /\ d.stage = "save"
        /\ \E it \in QueuedOf(j) : it.index = 2


\* ------------------------------------------------------- the length cap
\* the name after the five replacements is longer than the cap and has an
\* extension
CappedWithExtension ==
    /\ naming.pc \in {"sanitized", "again"}
    /\ naming.input # <<>>
    /\ Len(Replacements(naming.input)) > maxLength
    /\ extensionMatch(Replacements(naming.input)) # <<>>

EndsWith(str, suffix) ==
    /\ Len(suffix) <= Len(str)
    /\ SubSeq(str, Len(str) - Len(suffix) + 1, Len(str)) = suffix

\* C31: for every input the sanitizer's output is at most 180 characters
\* long, and when the character-replaced name is longer than 180
\* characters and has an extension the output still ends with it.
C31_CappedKeepsExtension ==
    naming.pc \in {"sanitized", "again"} =>
        /\ Len(naming.sanitized.name) <= maxLength
        /\ CappedWithExtension =>
              EndsWith(naming.sanitized.name,
                       extensionMatch(Replacements(naming.input)))

\* C31 for the names whose extension is not longer than the cap.  Holds.
CappedWhenExtensionFits ==
    (/\ naming.pc \in {"sanitized", "again"}
     /\ Len(extensionMatch(Replacements(naming.input))) <= maxLength) =>
        /\ Len(naming.sanitized.name) <= maxLength
        /\ CappedWithExtension =>
              EndsWith(naming.sanitized.name,
                       extensionMatch(Replacements(naming.input)))
CappedWhenExtensionFitsReached ==
    /\ CappedWithExtension
    /\ Len(extensionMatch(Replacements(naming.input))) = 2
    /\ Len(naming.sanitized.name) = maxLength

\* the extension is kept whatever its length.  Holds.
ExtensionKept ==
    CappedWithExtension =>
        EndsWith(naming.sanitized.name, extensionMatch(Replacements(naming.input)))


\* ------------------------------------------------------- no item lost
\* the items that are pending before the step and no longer after it
LeavesQueue == {it \in SeqRange(downloadQueue) : it \notin SeqRange(downloadQueue')}

\* the step hands the item to downloadPhoto
DispatchedInStep(it) == it.index \in DispatchedNow(it.job)

\* the step empties the queue for a cancellation: the cancelDownload
\* handler, or the driver finding the flag set
RemovedByCancel == isCancelled' /\ downloadQueue' = <<>>

\* C32: every item placed in the queue is dispatched exactly once or
\* removed by a cancellation request: an item leaves the queue only by
\* being dispatched or by a cancellation (never by a later enqueue
\* overwriting the queue), and an item that is dispatched has not been
\* dispatched before.
C32_NoItemLost ==
    [][/\ \A it \in LeavesQueue : DispatchedInStep(it) \/ RemovedByCancel
       /\ \A j \in JobIds : \A i \in DispatchedNow(j) :
             /\ i > outcomes[j].dispatched
             /\ \E it \in LeavesQueue : it.job = j /\ it.index = i]_vars

\* C32 while only one job has been requested.  Holds.
NoItemLostSingleJob ==
    [][Cardinality(Started') <= 1 =>
          /\ \A it \in LeavesQueue : DispatchedInStep(it) \/ RemovedByCancel
          /\ \A j \in JobIds : \A i \in DispatchedNow(j) :
                /\ i > outcomes[j].dispatched
                /\ \E it \in LeavesQueue : it.job = j /\ it.index = i]_vars
NoItemLostReached ==
    /\ Cardinality(Started) = 1
    /\ jobs[1].queued = 2
    /\ outcomes[1].dispatched = 1
    /\ dropped = {<<1, 2>>}

\* no item is dispatched twice, however many jobs overlap.  Holds.
NeverDispatchedTwice ==
    [][\A j \in JobIds : \A i \in DispatchedNow(j) :
          /\ i > outcomes[j].dispatched
          /\ \E it \in LeavesQueue : it.job = j /\ it.index = i]_vars


\* ------------------------------------------------ numbers as entered
\* the ranges of the three number fields
FieldRange == [fileNameIndexPadding |-> [lo |-> 0, hi |-> 10],
               concurrentDownloads |-> [lo |-> 1, hi |-> 10],
               delayBetweenDownloads |-> [lo |-> 0, hi |-> 10000]]

\* the number of digits downloadPhoto pads an index to, for the padding
\* of the item's options: item.options.fileNameIndexPadding || 3
paddedIndexWidth(padding) == IF padding = 0 THEN 3 ELSE padding

\* field f held an integer and the record persisted it clamped to the
\* field's range
SavedAsEntered(f) ==
    ~optionsPage.entered[f].nan =>
        optionsPage.saved[f] =
            Clamp(FieldRange[f].lo, FieldRange[f].hi, optionsPage.entered[f].val)

\* C33: for every integer v entered in the concurrency, delay or padding
\* field, saveOptions persists v clamped to the field's range (0 for the
\* delay or the padding persists 0), and the padding applied to file
\* indices equals the persisted padding.
C33_PersistsEnteredClamped ==
    optionsPage.by = "save" =>
        /\ \A f \in DOMAIN FieldRange : SavedAsEntered(f)
        /\ paddedIndexWidth(optionsPage.saved.fileNameIndexPadding)
              = optionsPage.saved.fileNameIndexPadding

\* C33 for the integers other than 0, and for a persisted padding other
\* than 0.  Holds.
PersistsNonZeroClamped ==
    optionsPage.by = "save" =>
        /\ \A f \in DOMAIN FieldRange :
              optionsPage.entered[f].val # 0 => SavedAsEntered(f)
        /\ optionsPage.saved.fileNameIndexPadding # 0 =>
              paddedIndexWidth(optionsPage.saved.fileNameIndexPadding)
                  = optionsPage.saved.fileNameIndexPadding
PersistsNonZeroClampedReached ==
    /\ optionsPage.by = "save"
    /\ optionsPage.entered.delayBetweenDownloads = [nan |-> FALSE, val |-> 10001]
    /\ optionsPage.saved.delayBetweenDownloads = 10000
    /\ optionsPage.entered.concurrentDownloads = [nan |-> FALSE, val |-> 1]
    /\ optionsPage.entered.fileNameIndexPadding = [nan |-> FALSE, val |-> 10]
    /\ optionsPage.saved.fileNameIndexPadding = 10


\* ---------------------------------------------------------- the popup
\* (src/unnamed/part_000) the pages the popup can be opened on: an album,
\* a post with photos, a single photo
Contexts == {[kind |-> "album", n |-> 0], [kind |-> "single", n |-> 1]}
            \cup {[kind |-> "post", n |-> n] : n \in 1..MaxPhotos}

showProgress(p) ==
    [p EXCEPT !.progressContainer = "block", !.cancelBtn = "block",
              !.downloadDisabled = TRUE, !.openOptionsDisabled = TRUE]

hideProgress(p) ==
    [p EXCEPT !.progressContainer = "none", !.cancelBtn = "none",
              !.downloadDisabled = FALSE, !.openOptionsDisabled = FALSE]

\* updateUIForContext(context): found says the context is not null; each
\* page of Contexts shows the download button
updateUIForContext(p, found) ==
    IF found
    THEN [p EXCEPT !.downloadDisabled = FALSE, !.downloadBtn = "block"]
    ELSE [p EXCEPT !.downloadBtn = "none"]

showError(p) ==
    IF p.pageContextCache
    THEN updateUIForContext(hideProgress(p), TRUE)
    ELSE hideProgress(p)

\* a call of detectPageContext().then(updateUIForContext) is started
detectPageContext(p) == [p EXCEPT !.detecting = Min(MaxDetects, @ + 1)]

\* the runtime.onMessage listener, for one message of the worker; item
\* errors and job errors both arrive as downloadError
onMessage(p, ev) ==
    CASE ev.type = "Progress" -> showProgress(p)
      [] ev.type = "Completed" -> detectPageContext(hideProgress(p))
      [] ev.type \in {"Error", "ItemError"} -> detectPageContext(showError(p))
      [] ev.type = "Cancelled" -> detectPageContext(hideProgress(p))

\* the listener handles the oldest message
PopupReceives ==
    /\ popup.open
    /\ toPopup # <<>>
    /\ popup' = onMessage(popup, Head(toPopup))
    /\ toPopup' = Tail(toPopup)
    /\ UNCHANGED workerVars
    /\ UNCHANGED <<optionsPage, naming, resolver>>

\* a call of detectPageContext returns and updateUIForContext runs: the
\* context is found, the tab is not a Facebook page, or the content
\* script does not answer
ContextDetected ==
    /\ popup.open
    /\ popup.detecting > 0
    /\ \E outcome \in {"found", "notFacebook", "failed"} :
          LET p == [popup EXCEPT !.detecting = @ - 1]
          IN  popup' =
                CASE outcome = "found" ->
                        updateUIForContext([p EXCEPT !.currentTabId = TRUE,
                                                     !.pageContextCache = TRUE], TRUE)
                  [] outcome = "notFacebook" ->
                        updateUIForContext([p EXCEPT !.pageContextCache = FALSE], FALSE)
                  [] outcome = "failed" ->
                        updateUIForContext(
                            [showError([p EXCEPT !.currentTabId = TRUE])
                                EXCEPT !.pageContextCache = FALSE], FALSE)
    /\ UNCHANGED toPopup
    /\ UNCHANGED workerVars
    /\ UNCHANGED <<optionsPage, naming, resolver>>

\* the download requests the popup has sent or the worker has received
Requested ==
    Cardinality(Started)
        + Cardinality({i \in 1..Len(popup.requests) : popup.requests[i] = "download"})

\* a click on the download button; a disabled or hidden button takes no
\* click, and the handler returns at once without a tab or a context
DownloadClicked ==
    /\ popup.open
    /\ popup.downloadBtn = "block"
    /\ ~popup.downloadDisabled
    /\ popup.currentTabId
    /\ popup.pageContextCache
    /\ Requested < MaxJobs
    /\ popup' = [showProgress(popup) EXCEPT !.requests = Append(@, "download")]
    /\ UNCHANGED toPopup
    /\ UNCHANGED workerVars
    /\ UNCHANGED <<optionsPage, naming, resolver>>

\* a click on the cancel button
CancelClicked ==
    /\ popup.open
    /\ popup.cancelBtn = "block"
    /\ ~popup.cancelDisabled
    /\ popup.currentTabId
    /\ popup' = [popup EXCEPT !.cancelDisabled = TRUE,
                              !.requests = Append(@, "cancel")]
    /\ UNCHANGED toPopup
    /\ UNCHANGED workerVars
    /\ UNCHANGED <<optionsPage, naming, resolver>>

\* the worker's onMessage listener receives the oldest request of the popup
DownloadRequestArrives ==
    /\ popup.requests # <<>>
    /\ Head(popup.requests) = "download"
    /\ popup' = [popup EXCEPT !.requests = Tail(@)]
    /\ StartJobWith(popup.context.kind, popup.context.n)

CancelRequestArrives ==
    /\ popup.requests # <<>>
    /\ Head(popup.requests) = "cancel"
    /\ popup' = [popup EXCEPT !.requests = Tail(@)]
    /\ cancelDownload

\* the popup has just been opened on a page; the worker is fresh
InitPopup ==
    /\ strictMode \in BOOLEAN
    /\ storedIds = {}
    /\ storageGets = <<>>
    /\ startup = [pending |-> FALSE, ids |-> {}]
    /\ optionsPage = NothingSaved
    /\ naming = NoName
    /\ Fresh
    /\ toPopup = <<>>
    /\ resolver = NotCalled
    /\ \E c \in Contexts :
          popup = [PopupClosed EXCEPT !.open = TRUE, !.context = c, !.detecting = 1]

NextPopup ==
    \/ PopupReceives
    \/ ContextDetected
    \/ DownloadClicked
    \/ CancelClicked
    \/ DownloadRequestArrives
    \/ CancelRequestArrives
    \/ \E j \in JobIds : PhotosOptionsRead(j)
    \/ \E j \in JobIds : AlbumOptionsRead(j)
    \/ \E j \in JobIds : AlbumResolved(j)
    \/ TimerFires
    \/ BatchDispatch
    \/ \E d \in inflight : FetchOk(d)
    \/ \E d \in inflight : FetchFail(d)
    \/ \E d \in inflight : SaveOk(d)
    \/ \E d \in inflight : SaveFail(d)

SpecPopup == InitPopup /\ [][NextPopup]_vars

\* the popup shows no running download
PopupIdle ==
    /\ popup.progressContainer = "none"
    /\ popup.cancelBtn = "none"
    /\ ~popup.downloadDisabled

\* nothing is left to happen: the worker is at rest and every message
\* and every call of the popup has been handled
AllHandled ==
    /\ Quiescent
    /\ toPopup = <<>>
    /\ popup.requests = <<>>
    /\ popup.detecting = 0

\* the step is a click on the download button
ClicksDownload ==
    /\ Len(popup'.requests) = Len(popup.requests) + 1
    /\ popup'.requests[Len(popup'.requests)] = "download"

\* C34: whenever the cancel button is shown for a running download it is
\* enabled: a click on the download button shows an enabled cancel
\* button, also after cancel was clicked during an earlier job of the
\* same popup session.
C34_CancelButtonEnabled ==
    [][ClicksDownload => (popup'.cancelBtn = "block" /\ ~popup'.cancelDisabled)]_vars

\* C34 up to the first click on cancel.  Holds.
CancelButtonEnabledAtFirst ==
    [][(ClicksDownload /\ cancels = 0 /\ popup.requests = <<>>)
          => (popup'.cancelBtn = "block" /\ ~popup'.cancelDisabled)]_vars
CancelButtonEnabledAtFirstReached ==
    /\ Cardinality(Started) = 2
    /\ cancels = 0
    /\ popup.cancelBtn = "block"
    /\ ~popup.cancelDisabled

PopupIdleAtEndNoCancel ==
    (Started # {} /\ AllHandled /\ cancels = 0) => PopupIdle
PopupIdleAtEndNoCancelReached ==
    /\ AllHandled
    /\ cancels = 0
    /\ PopupIdle
    /\ \E j \in JobIds : jobs[j].queued = 2 /\ outcomes[j].saved = 2


\* ------------------------------------------------- the album resolver
\* (src/unnamed/part_002) getPhotoUrlsForAlbum followed await by await.
\* The photos asked for per page, and the size above which the loop stops
first == 50
safetyBreak == 5000

\* the call ends: a photo list is returned, or an AbortError or another
\* Error is thrown
Ends(r, result) == [r EXCEPT !.pc = "done", !.result = result]

\* the catch of the GraphQL attempt: an AbortError is thrown on, any
\* other error starts the page scrape
CatchGraphQL(r, name) ==
    IF name = "AbortError"
    THEN Ends([r EXCEPT !.exit = "aborted"], "AbortError")
    ELSE [r EXCEPT !.pc = "scrape", !.exit = "failed", !.fellBack = TRUE,
                   !.scrapedAborted = r.aborted]

\* the head of the while loop: the check of the signal, then the request
LoopHead(r) ==
    IF r.signal = "given" /\ r.aborted
    THEN CatchGraphQL(r, "AbortError")
    ELSE [r EXCEPT !.pc = "fetch"]

\* the call starts: the entry check, then await getFbDtsg(tabId)
ResolverEnters ==
    /\ resolver.pc = "called"
    /\ resolver' = IF resolver.signal = "given" /\ resolver.aborted
                   THEN Ends(resolver, "AbortError")
                   ELSE [resolver EXCEPT !.pc = "dtsg"]
    /\ UNCHANGED workerVars
    /\ UNCHANGED <<optionsPage, naming>>
    /\ UNCHANGED popupVars

\* getFbDtsg returns (a token or null): the loop for a real album id,
\* the scrape otherwise
DtsgReturns ==
    /\ resolver.pc = "dtsg"
    /\ resolver' = IF resolver.realId
                   THEN LoopHead(resolver)
                   ELSE [resolver EXCEPT !.pc = "scrape",
                                         !.scrapedAborted = resolver.aborted]
    /\ UNCHANGED workerVars
    /\ UNCHANGED <<optionsPage, naming>>
    /\ UNCHANGED popupVars

\* the fetch settles.  An aborted signal rejects it with an AbortError;
\* otherwise it rejects (network), or answers with or without success.
\* The check that follows reads signal.aborted without a guard.
FetchReturns ==
    /\ resolver.pc = "fetch"
    /\ \E answer \in {"rejects", "notOk", "ok"} :
          resolver' =
             IF resolver.aborted THEN CatchGraphQL(resolver, "AbortError")
             ELSE IF answer = "rejects" THEN CatchGraphQL(resolver, "TypeError")
             ELSE IF resolver.signal = "none" THEN CatchGraphQL(resolver, "TypeError")
             ELSE IF answer = "notOk" THEN CatchGraphQL(resolver, "Error")
             ELSE [resolver EXCEPT !.pc = "json"]
    /\ UNCHANGED workerVars
    /\ UNCHANGED <<optionsPage, naming>>
    /\ UNCHANGED popupVars

\* response.json() settles.  An aborted signal rejects it; otherwise the
\* body does not parse, or an edge without an image uri reaches the
\* undeclared name photo, or the page adds its new photos and says
\* whether another page follows
JsonReturns ==
    /\ resolver.pc = "json"
    /\ \E body \in {"syntaxError", "referenceError", "page"},
          added \in {0, first}, has_next_page \in BOOLEAN :
          resolver' =
             IF resolver.aborted THEN CatchGraphQL(resolver, "AbortError")
             ELSE IF body = "syntaxError" THEN CatchGraphQL(resolver, "SyntaxError")
             ELSE IF body = "referenceError" THEN CatchGraphQL(resolver, "ReferenceError")
             ELSE LET allPhotos == resolver.photos + added
                  IN  IF ~has_next_page
                      THEN Ends([resolver EXCEPT !.photos = allPhotos,
                                                 !.exit = "noNextPage"], "photos")
                      ELSE IF allPhotos > safetyBreak
                      THEN Ends([resolver EXCEPT !.photos = allPhotos,
                                                 !.exit = "limit"], "photos")
                      ELSE [resolver EXCEPT !.photos = allPhotos, !.pc = "delay"]
    /\ UNCHANGED workerVars
    /\ UNCHANGED <<optionsPage, naming>>
    /\ UNCHANGED popupVars

\* the delay between two pages ends
DelayEnds ==
    /\ resolver.pc = "delay"
    /\ resolver' = LoopHead(resolver)
    /\ UNCHANGED workerVars
    /\ UNCHANGED <<optionsPage, naming>>
    /\ UNCHANGED popupVars

\* chrome.scripting.executeScript of the scrape settles: it rejects, or
\* it answers with or without a result.  The check that follows reads
\* signal.aborted without a guard; the catch turns every error but an
\* AbortError into "Failed to scrape photos"
ScrapeReturns ==
    /\ resolver.pc = "scrape"
    /\ \E answer \in {"rejects", "noResult", "result"} :
          resolver' =
             IF answer = "rejects" THEN Ends(resolver, "Error")
             ELSE IF resolver.signal = "none" THEN Ends(resolver, "Error")
             ELSE IF resolver.aborted THEN Ends(resolver, "AbortError")
             ELSE IF answer = "noResult" THEN Ends(resolver, "Error")
             ELSE Ends(resolver, "photos")
    /\ UNCHANGED workerVars
    /\ UNCHANGED <<optionsPage, naming>>
    /\ UNCHANGED popupVars

\* the caller aborts the signal while the call is running
SignalAborted ==
    /\ resolver.pc \notin {"idle", "done"}
    /\ resolver.signal = "given"
    /\ ~resolver.aborted
    /\ resolver' = [resolver EXCEPT !.aborted = TRUE]
    /\ UNCHANGED workerVars
    /\ UNCHANGED <<optionsPage, naming>>
    /\ UNCHANGED popupVars

\* a call with or without a signal, which may be aborted already, for a
\* real album id or a scraped one
InitResolver ==
    /\ strictMode = FALSE
    /\ storedIds = {}
    /\ storageGets = <<>>
    /\ startup = [pending |-> FALSE, ids |-> {}]
    /\ optionsPage = NothingSaved
    /\ naming = NoName
    /\ Fresh
    /\ popup = PopupClosed
    /\ toPopup = <<>>
    /\ \E signal \in {"none", "given"}, aborted, realId \in BOOLEAN :
          /\ aborted => signal = "given"
          /\ resolver = [NotCalled EXCEPT !.pc = "called", !.signal = signal,
                                          !.aborted = aborted, !.realId = realId]

NextResolver ==
    \/ ResolverEnters
    \/ DtsgReturns
    \/ FetchReturns
    \/ JsonReturns
    \/ DelayEnds
    \/ ScrapeReturns
    \/ SignalAborted

SpecResolver == InitResolver /\ [][NextResolver]_vars

\* the event loop runs every continuation that is ready, and every
\* request and timer of the call settles
ResolverRuns ==
    \/ ResolverEnters
    \/ DtsgReturns
    \/ FetchReturns
    \/ JsonReturns
    \/ DelayEnds
    \/ ScrapeReturns

SpecResolverFair == SpecResolver /\ WF_vars(ResolverRuns)

\* C36: in the signal-aware resolver, once the signal is aborted the call
\* never returns a photo list and never falls back to page scraping: it
\* ends by throwing an AbortError.
C36_AbortedThrowsAbortError ==
    (resolver.signal = "given" /\ resolver.aborted) =>
        /\ ~(resolver.fellBack /\ resolver.scrapedAborted)
        /\ resolver.pc = "done" => resolver.result = "AbortError"

\* C36 without its last part: an aborted call returns no photo list and
\* does not fall back to the scrape; it throws an AbortError unless the
\* scrape itself was rejected.  Holds.
AbortedReturnsNoPhotos ==
    (resolver.signal = "given" /\ resolver.aborted) =>
        /\ ~(resolver.fellBack /\ resolver.scrapedAborted)
        /\ resolver.pc = "done" => resolver.result \in {"AbortError", "Error"}
        /\ (resolver.pc = "done" /\ resolver.result = "Error") =>
              (~resolver.realId \/ resolver.fellBack)
AbortedReturnsNoPhotosReached ==
    /\ resolver.signal = "given"
    /\ resolver.aborted
    /\ resolver.pc = "done"
    /\ resolver.result = "AbortError"
    /\ resolver.photos = first

\* a call without a signal always ends by throwing an Error.  Holds.
WithoutSignalThrows ==
    (resolver.signal = "none" /\ resolver.pc = "done") => resolver.result = "Error"
WithoutSignalThrowsReached ==
    /\ resolver.signal = "none"
    /\ resolver.pc = "done"
    /\ resolver.realId
    /\ resolver.fellBack

\* C37: the pagination loop terminates for every sequence of server
\* responses: the call that entered it ends, also on responses that keep
\* reporting a next page without contributing new photos.
C37_PaginationTerminates ==
    (resolver.pc = "fetch") ~> (resolver.pc \in {"scrape", "done"})

\* the loop is left only when a response reports no next page, more than
\* 5000 photos are collected, a request fails or the signal is aborted.
\* Holds.
LoopLeftByItsExits ==
    /\ resolver.exit = "noNextPage" => resolver.result = "photos"
    /\ resolver.exit = "limit" =>
          (resolver.result = "photos" /\ resolver.photos > safetyBreak)
    /\ resolver.exit = "aborted" => (resolver.aborted /\ resolver.result = "AbortError")
    /\ (resolver.realId /\ resolver.pc = "scrape") => resolver.exit = "failed"
    /\ (resolver.realId /\ resolver.pc = "done" /\ resolver.photos > 0) =>
          resolver.exit # "none"
LoopLeftByItsExitsReached ==
    /\ resolver.exit = "limit"
    /\ resolver.photos = safetyBreak + first

====
